---- MODULE Spec2Model ----
(***************************************************************************)
(* Model of bouquet2/water: the upgrade manager (PerformUpgrade, the node  *)
(* sequencers of both layers, the progress monitor) and the version        *)
(* comparator it depends on.                                               *)
(*                                                                         *)
(* Version strings are sequences of one-character strings, so that the     *)
(* comparator is computed as the code computes it (TrimPrefix, Split,      *)
(* Atoi).  The cluster, the release index and the upgraders are the        *)
(* environment: every call to them is a step whose outcome is drawn from   *)
(* the outcomes the collaborator can produce.                              *)
(***************************************************************************)
EXTENDS Integers, Sequences, FiniteSets, TLC

\* ------------------------------------------------------------------ bounds
\* Largest number of nodes the cluster reports.
MaxNodes == 2
\* Largest number of releases the release index returns in one response.
MaxReleases == 2
\* calls made on an UpgradeResult that is exercised on its own
MaxCalls == 4
\* goroutines that call a package-level function concurrently
MaxCallers == 2
\* calls each of those goroutines makes, one after the other
MaxCallsPerCaller == 2
\* Largest number of ticker ticks the monitor's select handles before the
\* 10-minute deadline wins (30s ticker: at most 20 in the program).
MaxTicks == 2

\* ------------------------------------------------- version strings (values)
V100 == <<"v", "1", ".", "0", ".", "0">>
V110 == <<"v", "1", ".", "1", ".", "0">>
V120 == <<"v", "1", ".", "2", ".", "0">>
\* placeholder GetClusterInfo reports when the Kubernetes version is unavailable
Unknown == <<"u", "n", "k", "n", "o", "w", "n">>

\* further version strings handed to the comparator
V123 == <<"v", "1", ".", "2", ".", "3">>
V130 == <<"v", "1", ".", "3", ".", "0">>
V199 == <<"v", "1", ".", "9", ".", "9">>
V200 == <<"v", "2", ".", "0", ".", "0">>
V1105 == <<"v", "1", ".", "1", "0", ".", "5">>
Bare110 == <<"1", ".", "1", ".", "0">>
V123rc1 == <<"v", "1", ".", "2", ".", "3", "-", "r", "c", "1">>
V123alpha1 == <<"v", "1", ".", "2", ".", "3", "-", "a", "l", "p", "h", "a", ".", "1">>
V12 == <<"v", "1", ".", "2">>

\* the strings the comparator is applied to: well-formed ones with and without
\* the 'v' and a suffix, and malformed ones
VersionStrings ==
    {V100, V110, V120, V123, V130, V199, V200, V1105, Bare110, V123rc1,
     V123alpha1, V12, Unknown, <<>>}

\* versions a node can report for the host layer; empty when neither the node
\* nor the cluster-wide response carries a tag (talos/version.go lines 64-69)
NodeVersions == {V100, V110, V120, <<>>}
\* versions the cluster can report for the orchestration layer
K8sVersions == {V100, V110, V120, Unknown}
\* target versions of the configuration (LoadConfig requires the leading 'v')
Targets == {V110}
\* the cluster-wide Talos version: the first node response's tag, empty when
\* no response carries one
ClusterTalosVersions == NodeVersions \cup {<<>>}

\* ------------------------------------------------------ version comparator
Digits == {"0", "1", "2", "3", "4", "5", "6", "7", "8", "9"}

DigitVal(c) ==
    CASE c = "0" -> 0 [] c = "1" -> 1 [] c = "2" -> 2 [] c = "3" -> 3
      [] c = "4" -> 4 [] c = "5" -> 5 [] c = "6" -> 6 [] c = "7" -> 7
      [] c = "8" -> 8 [] c = "9" -> 9

Contains(s, c) == \E k \in 1..Len(s) : s[k] = c

\* strings.TrimPrefix(s, prefix) for a one-character prefix
TrimPrefix(s, c) == IF Len(s) >= 1 /\ s[1] = c THEN Tail(s) ELSE s

\* strings.HasPrefix(s, prefix) for a one-character prefix
HasPrefix(s, c) == Len(s) >= 1 /\ s[1] = c

\* strings.Split(s, sep) for a one-character separator
RECURSIVE Split(_, _)
Split(s, sep) ==
    IF Contains(s, sep)
    THEN LET k == CHOOSE k \in 1..Len(s) :
                    s[k] = sep /\ \A j \in 1..(k - 1) : s[j] # sep
         IN  <<SubSeq(s, 1, k - 1)>> \o Split(SubSeq(s, k + 1, Len(s)), sep)
    ELSE <<s>>

RECURSIVE DecVal(_)
DecVal(s) == IF s = <<>> THEN 0
             ELSE 10 * DecVal(SubSeq(s, 1, Len(s) - 1)) + DigitVal(s[Len(s)])

\* strconv.Atoi: optional sign, then one or more decimal digits
\* (the range error of more than 19 digits is beyond the strings used here)
Atoi(p) ==
    LET signed == Len(p) >= 1 /\ p[1] \in {"+", "-"}
        body   == IF signed THEN Tail(p) ELSE p
    IN  IF body = <<>> \/ \E k \in 1..Len(body) : body[k] \notin Digits
        THEN [ok |-> FALSE, val |-> 0]
        ELSE [ok |-> TRUE,
              val |-> IF signed /\ p[1] = "-" THEN 0 - DecVal(body)
                      ELSE DecVal(body)]

\* parseVersion: [ok, parts]; the argument has already lost its 'v'
parseVersion(version) ==
    LET parts == Split(version, ".")
        cut(part) == IF Contains(part, "-") THEN Split(part, "-")[1] ELSE part
    IN  IF Len(parts) # 3
        THEN [ok |-> FALSE, parts |-> <<0, 0, 0>>]
        ELSE IF \E k \in 1..3 : ~Atoi(cut(parts[k])).ok
             THEN [ok |-> FALSE, parts |-> <<0, 0, 0>>]
             ELSE [ok |-> TRUE,
                   parts |-> [k \in 1..3 |-> Atoi(cut(parts[k])).val]]

Equal == 0
Newer == 1
Older == 0 - 1

\* variant: the loop stops before the patch component
Compare_NoPatch(version1, version2) ==
    LET parts1 == parseVersion(TrimPrefix(version1, "v"))
        parts2 == parseVersion(TrimPrefix(version2, "v"))
        differ == {k \in 1..2 : parts1.parts[k] # parts2.parts[k]}
        first  == CHOOSE k \in differ : \A j \in differ : k <= j
    IN  IF ~parts1.ok \/ ~parts2.ok THEN [err |-> TRUE, res |-> Equal]
        ELSE IF differ = {} THEN [err |-> FALSE, res |-> Equal]
        ELSE IF parts1.parts[first] > parts2.parts[first]
             THEN [err |-> FALSE, res |-> Newer]
             ELSE [err |-> FALSE, res |-> Older]

\* Compare: [err, res]; res is Equal when err
Compare(version1, version2) ==
    LET parts1 == parseVersion(TrimPrefix(version1, "v"))
        parts2 == parseVersion(TrimPrefix(version2, "v"))
        differ == {k \in 1..3 : parts1.parts[k] # parts2.parts[k]}
        first  == CHOOSE k \in differ : \A j \in differ : k <= j
    IN  IF ~parts1.ok \/ ~parts2.ok THEN [err |-> TRUE, res |-> Equal]
        ELSE IF differ = {} THEN [err |-> FALSE, res |-> Equal]
        ELSE IF parts1.parts[first] > parts2.parts[first]
             THEN [err |-> FALSE, res |-> Newer]
             ELSE [err |-> FALSE, res |-> Older]

\* variant: any difference counts as an upgrade
NeedsUpgrade_NotEqual(currentVersion, targetVersion) ==
    LET c == Compare(currentVersion, targetVersion)
    IN  IF c.err THEN [err |-> TRUE, needs |-> FALSE]
        ELSE [err |-> FALSE, needs |-> (c.res # Equal)]

\* NeedsUpgrade: [err, needs]
NeedsUpgrade(currentVersion, targetVersion) ==
    LET c == Compare(currentVersion, targetVersion)
    IN  IF c.err THEN [err |-> TRUE, needs |-> FALSE]
        ELSE [err |-> FALSE, needs |-> (c.res = Older)]

\* ValidateVersion: TRUE iff it returns nil
ValidateVersion(version) ==
    /\ version # <<>>
    /\ parseVersion(TrimPrefix(version, "v")).ok

\* ------------------------------------- the orchestration layer's comparator
\* the value of an expression whose locals are bound once, written as the
\* only element of a set
Only(S) == CHOOSE x \in S : TRUE

\* one %d of fmt.Sscanf: an optional sign and the longest run of decimal
\* digits, of which there must be one; rest is the input after it
ScanInt(s) ==
    Only({Only({
        [ok |-> n > 0,
         val |-> IF Len(s) >= 1 /\ s[1] = "-" THEN 0 - DecVal(SubSeq(body, 1, n))
                 ELSE DecVal(SubSeq(body, 1, n)),
         rest |-> SubSeq(body, n + 1, Len(body))] :
            n \in {Cardinality({k \in 1..Len(body) :
                                  \A j \in 1..k : body[j] \in Digits})}}) :
            body \in {IF Len(s) >= 1 /\ s[1] \in {"+", "-"} THEN Tail(s) ELSE s}})

\* the input after the '.' that the format has between two numbers
AfterDot(scanned) == SubSeq(scanned.rest, 2, Len(scanned.rest))

\* fmt.Sscanf(s, "%d.%d.%d", ...): [n, err, vals]; input left over after the
\* third number is not an error
Sscanf(s) ==
    Only({Only({Only({
        IF ~a.ok THEN [n |-> 0, err |-> TRUE, vals |-> <<0, 0, 0>>]
        ELSE IF ~HasPrefix(a.rest, ".") \/ ~b.ok
             THEN [n |-> 1, err |-> TRUE, vals |-> <<a.val, 0, 0>>]
        ELSE IF ~HasPrefix(b.rest, ".") \/ ~c.ok
             THEN [n |-> 2, err |-> TRUE, vals |-> <<a.val, b.val, 0>>]
        ELSE [n |-> 3, err |-> FALSE, vals |-> <<a.val, b.val, c.val>>] :
            c \in {ScanInt(AfterDot(b))}}) :
            b \in {ScanInt(AfterDot(a))}}) :
            a \in {ScanInt(s)}})

\* parseVersion of package k8s: [ok, parts]; the argument has lost its 'v'
k8sParseVersion(version) ==
    Only({IF scanned.err \/ scanned.n # 3
          THEN [ok |-> FALSE, parts |-> <<0, 0, 0>>]
          ELSE [ok |-> TRUE, parts |-> scanned.vals] :
             scanned \in {Sscanf(Split(version, "-")[1])}})

\* CompareVersions: [err, res]; res is -1, 0 or 1, and 0 when err
CompareVersions(version1, version2) ==
    Only({IF ~v1Parts.ok \/ ~v2Parts.ok THEN [err |-> TRUE, res |-> 0]
          ELSE IF v1Parts.parts[1] < v2Parts.parts[1] THEN [err |-> FALSE, res |-> 0 - 1]
          ELSE IF v1Parts.parts[1] > v2Parts.parts[1] THEN [err |-> FALSE, res |-> 1]
          ELSE IF v1Parts.parts[2] < v2Parts.parts[2] THEN [err |-> FALSE, res |-> 0 - 1]
          ELSE IF v1Parts.parts[2] > v2Parts.parts[2] THEN [err |-> FALSE, res |-> 1]
          ELSE IF v1Parts.parts[3] < v2Parts.parts[3] THEN [err |-> FALSE, res |-> 0 - 1]
          ELSE IF v1Parts.parts[3] > v2Parts.parts[3] THEN [err |-> FALSE, res |-> 1]
          ELSE [err |-> FALSE, res |-> 0] :
             v1Parts \in {k8sParseVersion(TrimPrefix(version1, "v"))},
             v2Parts \in {k8sParseVersion(TrimPrefix(version2, "v"))}})

\* IsVersionUpgradeNeeded: [err, needs]
IsVersionUpgradeNeeded(currentVersion, targetVersion) ==
    IF currentVersion = <<>> \/ targetVersion = <<>>
    THEN [err |-> TRUE, needs |-> FALSE]
    ELSE Only({IF comparison.err THEN [err |-> TRUE, needs |-> FALSE]
               ELSE [err |-> FALSE, needs |-> comparison.res < 0] :
                  comparison \in {CompareVersions(currentVersion, targetVersion)}})

\* ------------------------------------------------------------ configuration
ControlPlaneFirst == "control-plane-first"
WorkersFirst == "workers-first"
\* LoadConfig rejects every other upgradeOrder and defaults to ControlPlaneFirst
Orders == {ControlPlaneFirst, WorkersFirst}

\* entry points: the two modes of the command, and the two sequencers called on
\* their own with a batch and a NodeInfo set of the caller's choosing
Entries == {"PerformUpgrade", "CheckOnly", "upgradeNodesSequentiallyWithResult",
            "upgradeKubernetesOnNodes"}

\* the entry points the command calls (run, part_000 lines 124-159)
CommandEntries == {"PerformUpgrade", "CheckOnly"}

\* ------------------------------------------------------------------ cluster
\* A cluster is its node list: node j is named j, cluster[j] is its role
\* (TRUE: control plane).  Names are unique, as Kubernetes node names are.
Names == 1..MaxNodes
Topologies == UNION {[1..k -> BOOLEAN] : k \in 0..MaxNodes}

\* duplicate-free batches of node names, including names the cluster lacks
Batches ==
    {b \in UNION {[1..k -> Names] : k \in 0..MaxNodes} :
        \A x, y \in 1..Len(b) : x # y => b[x] # b[y]}

VARIABLES
    entry,              \* which entry point this behaviour runs
    config,             \* *config.Config, immutable once loaded
    cluster,            \* topology of the cluster the inspector reports
    pc,                 \* position of the single thread of control
    result,             \* *UpgradeResult
    retErr,             \* error returned by the entry point ("" while running)
    talosNeedsUpgrade,  \* PerformUpgrade local
    clusterInfo,        \* PerformUpgrade local: K8sVersion of the planning snapshot
    snapshotAt,         \* history: length of the trace when clusterInfo was fetched
    layer,              \* "talos" | "kubernetes": which sequencer is running
    groups,             \* the two role groups in the order they are upgraded
    g,                  \* index of the current role group
    nodeNames,          \* the sequencer's batch
    nodeMap,            \* the sequencer's name -> endpoint lookup table
    resultArg,          \* the sequencer's result argument: "nil" | "result"
    i,                  \* the sequencer's loop index (1-based)
    successfulNodes,    \* monitorUpgradeProgress local
    failedNodes,        \* monitorUpgradeProgress local
    ticks,              \* ticks handled by the running monitor
    batchErr,           \* error returned by the sequencer ("nil" if none)
    monitorExit,        \* history: how the monitor returned: "" | "tick" | "deadline"
    observed,           \* history: batch nodes the running monitor has seen converged
    polled,             \* history: whom the monitor's ticks asked about, and the errors
    cancelled,          \* environment: the caller has cancelled the run during a sleep
    threads,            \* goroutines calling a package-level function: position, locals
    shared,             \* the package-level variables those goroutines share
    prereq,             \* history: readiness and roles of the prerequisite snapshot
    planned,            \* history: what the planning snapshot showed of the nodes
    batches,            \* history: <<layer, error>> of every batch that returned
    va, vb, vc,         \* version strings a comparator call is applied to
    out,                \* what the comparator call returned
    checked,            \* CheckOnly locals: the decisions it reports
    exitCode,           \* what run returned (NoExit while it has not)
    trace,              \* history: collaborator calls, their returns, sleeps
    inflight            \* history: collaborator calls that have not returned

vars == <<entry, config, cluster, pc, result, retErr, talosNeedsUpgrade,
          clusterInfo, snapshotAt, layer, groups, g, nodeNames, nodeMap,
          resultArg, i, successfulNodes, failedNodes, ticks, batchErr,
          monitorExit, observed, polled, cancelled, threads, shared,
          prereq, planned, batches,
          va, vb, vc, out, checked, exitCode,
          trace, inflight>>

\* variables of one sequencer call and its monitor
seqVars == <<nodeNames, nodeMap, i, successfulNodes, failedNodes, ticks, batchErr,
             monitorExit, observed, polled>>
\* variables of PerformUpgrade's frame
runVars == <<talosNeedsUpgrade, clusterInfo, snapshotAt>>
\* variables no step changes
inputVars == <<entry, config, cluster, resultArg, va, vb, vc, out, threads, shared>>
\* the same with the caller's cancellation, which only a sleeping step can see
\* happen
fixedVars == <<inputVars, cancelled>>
\* history variables written by one step only
histVars == <<prereq, planned, batches>>
\* variables of the command around the manager call
cmdVars == <<checked, exitCode>>

\* ------------------------------------------------------ cluster inspector
NoClusterInfo ==
    [ok |-> FALSE, TalosVersion |-> <<>>, K8sVersion |-> <<>>, Nodes |-> <<>>]

\* GetClusterInfo: the snapshots the inspector can return for a topology.
\* It fails only when the Talos version call fails; every NodeInfo it builds
\* has Ready = TRUE and, here, the node name as endpoint.
GetClusterInfoOf(topology) ==
    {NoClusterInfo} \cup
    {[ok |-> TRUE, TalosVersion |-> tv, K8sVersion |-> kv,
      Nodes |-> [j \in 1..Len(topology) |->
                    [Name |-> j, TalosVersion |-> nv[j], Ready |-> TRUE,
                     IsControlPlane |-> topology[j], Endpoint |-> j]]] :
        tv \in ClusterTalosVersions, kv \in K8sVersions,
        nv \in [1..Len(topology) -> NodeVersions]}

GetClusterInfo == GetClusterInfoOf(cluster)

\* ------------------------------------------------------------ release gate
\* GetSupportedVersions: failure after its retries, or the newest-first list
SupportedVersionsResults ==
    {[ok |-> FALSE, versions |-> <<>>],
     [ok |-> TRUE, versions |-> <<V120, V110>>],
     [ok |-> TRUE, versions |-> <<V120>>]}

\* variant: the format check alone decides
ValidateTargetVersion_FormatOnly(targetVersion, supported) ==
    /\ ValidateVersion(targetVersion)
    /\ supported.ok

\* ValidateTargetVersion: TRUE iff it returns nil
ValidateTargetVersion(targetVersion, supported) ==
    /\ ValidateVersion(targetVersion)
    /\ supported.ok
    /\ \E k \in 1..Len(supported.versions) : supported.versions[k] = targetVersion

\* ------------------------------------------------------------ release index
\* getReleaseConfig: the number of versions kept per layer
MaxVersions == 5

\* the responses of the release index whose tags are among the given strings
GitHubReleases(tags) ==
    UNION {[1..k -> [TagName : tags, Prerelease : BOOLEAN, Draft : BOOLEAN]] :
             k \in 0..MaxReleases}

\* fetchVersionsFromGitHub's filter: stable, tagged 'v...', well-formed, and
\* not yet in the list
RECURSIVE stableVersionsOf(_)
stableVersionsOf(releases) ==
    IF releases = <<>> THEN <<>>
    ELSE LET front   == stableVersionsOf(SubSeq(releases, 1, Len(releases) - 1))
             release == releases[Len(releases)]
         IN  IF \/ release.Prerelease \/ release.Draft \/ release.TagName = <<>>
                \/ ~HasPrefix(release.TagName, "v")
                \/ ~ValidateVersion(release.TagName)
                \/ \E k \in 1..Len(front) : front[k] = release.TagName
             THEN front
             ELSE Append(front, release.TagName)

\* sort.Slice with the comparator "Compare(i, j) = Newer": newest first.  An
\* element's place is the number of elements newer than it, elements that
\* compare Equal keeping the order they came in.
sortNewestFirst(versions) ==
    LET place(k) ==
            Cardinality({j \in 1..Len(versions) :
                            Compare(versions[j], versions[k]).res = Newer})
            + Cardinality({j \in 1..(k - 1) :
                              Compare(versions[j], versions[k]).res = Equal})
            + 1
    IN  IF versions = <<>> THEN <<>>
        ELSE [n \in 1..Len(versions) |->
                 versions[CHOOSE k \in 1..Len(versions) : place(k) = n]]

\* "if len(stableVersions) > config.MaxVersions": the list is cut to its
\* first maxVersions elements
firstVersions(versions, maxVersions) ==
    IF Len(versions) > maxVersions THEN SubSeq(versions, 1, maxVersions)
    ELSE versions

\* fetchVersionsFromGitHub: [ok, versions] from the response, or the error of
\* a request that failed
fetchVersionsFromGitHub(responded, releases) ==
    IF ~responded THEN [ok |-> FALSE, versions |-> <<>>]
    ELSE [ok |-> TRUE,
          versions |-> firstVersions(sortNewestFirst(stableVersionsOf(releases)),
                                     MaxVersions)]

\* what GetSupportedVersions makes of its last fetch: an empty list is an
\* error like a failed request
supportedOf(fetched) ==
    IF ~fetched.ok \/ Len(fetched.versions) = 0
    THEN [ok |-> FALSE, versions |-> <<>>]
    ELSE fetched

\* GetSupportedVersions, given the last attempt it made
GetSupportedVersions(responded, releases) ==
    supportedOf(fetchVersionsFromGitHub(responded, releases))

\* GetSupportedVersionsWithContext: attempts and seconds between them
maxRetries == 3
retryDelay == 2

\* variant: an empty list is returned like any other list
RECURSIVE GetSupportedVersionsWithContext_EmptyOk(_, _)
GetSupportedVersionsWithContext_EmptyOk(attempt, fetches) ==
    LET fetched == fetches[attempt]
    IN  IF fetched.ok
        THEN [ok |-> TRUE, versions |-> fetched.versions, attempts |-> attempt,
              sleeps |-> <<>>]
        ELSE IF attempt < maxRetries
        THEN LET rest == GetSupportedVersionsWithContext_EmptyOk(attempt + 1, fetches)
             IN  [rest EXCEPT !.sleeps = <<retryDelay>> \o @]
        ELSE [ok |-> FALSE, versions |-> <<>>, attempts |-> attempt, sleeps |-> <<>>]

\* GetSupportedVersionsWithContext from the given attempt on, fetches[k] being
\* what the k-th call of fetchVersionsFromGitHub returns if it is made:
\* [ok, versions], with the number of attempts made and the sleeps between them
RECURSIVE GetSupportedVersionsWithContext(_, _)
GetSupportedVersionsWithContext(attempt, fetches) ==
    LET fetched == fetches[attempt]
    IN  IF fetched.ok /\ Len(fetched.versions) # 0
        THEN [ok |-> TRUE, versions |-> fetched.versions, attempts |-> attempt,
              sleeps |-> <<>>]
        ELSE IF attempt < maxRetries
        THEN LET rest == GetSupportedVersionsWithContext(attempt + 1, fetches)
             IN  [rest EXCEPT !.sleeps = <<retryDelay>> \o @]
        ELSE [ok |-> FALSE, versions |-> <<>>, attempts |-> attempt, sleeps |-> <<>>]

\* what one fetch can return when the only release of the feed carries the
\* given tag: an error, no stable version, or the versions of the feed
FetchResults(tag) ==
    {fetchVersionsFromGitHub(FALSE, <<>>),
     fetchVersionsFromGitHub(TRUE, <<>>),
     fetchVersionsFromGitHub(TRUE, <<[TagName |-> tag, Prerelease |-> FALSE,
                                      Draft |-> FALSE]>>)}

\* ------------------------------------------------------------ command
\* CheckOnly's locals before it has decided anything
NoCheck ==
    [talosNeedsUpgrade |-> FALSE, talosVersionAvailable |-> FALSE,
     k8sNeedsUpgrade |-> FALSE, k8sVersionAvailable |-> FALSE]

\* the monitor has not handled a tick
NoPoll == [checked |-> {}, erred |-> {}, erredBefore |-> {}]

\* no planning snapshot yet
NoPlan == [older |-> FALSE, unparsed |-> FALSE, listed |-> 0]

\* run has not returned
NoExit == 0 - 1

\* ------------------------------------------------------------ UpgradeResult
NewUpgradeResult ==
    [TalosUpgraded |-> FALSE, K8sUpgraded |-> FALSE, Errors |-> <<>>,
     NodesUpgraded |-> <<>>, FailedNodes |-> <<>>, RollbackRequired |-> FALSE]

contains(slice, item) == \E k \in 1..Len(slice) : slice[k] = item

AddUpgradedNode(r, nodeName) ==
    IF ~contains(r.NodesUpgraded, nodeName)
    THEN [r EXCEPT !.NodesUpgraded = Append(@, nodeName)]
    ELSE r

AddFailedNode(r, nodeName) ==
    [r EXCEPT !.FailedNodes = IF ~contains(@, nodeName) THEN Append(@, nodeName) ELSE @,
              !.RollbackRequired = TRUE]

AddError(r, e) == [r EXCEPT !.Errors = Append(@, e)]

HasErrors(r) == Len(r.Errors) > 0

\* --------------------------------------------------------------------- Init
Init ==
    /\ entry \in Entries
    /\ config \in [Talos : [Version : Targets, UpgradeOrder : Orders],
                   K8s : [Version : Targets, UpgradeOrder : Orders]]
    /\ cluster \in Topologies
    /\ pc = IF entry \in CommandEntries THEN entry ELSE "loop"
    /\ result = NewUpgradeResult
    /\ retErr = ""
    /\ talosNeedsUpgrade = FALSE
    /\ clusterInfo = NoClusterInfo
    /\ snapshotAt = 0
    /\ layer = IF entry = "upgradeKubernetesOnNodes" THEN "kubernetes" ELSE "talos"
    /\ groups = <<>>
    /\ g = 0
    \* a sequencer called on its own gets any batch, the NodeInfo set of the
    \* cluster, and (host layer) a result or nil
    /\ IF entry \in CommandEntries
       THEN /\ nodeNames = <<>> /\ nodeMap = <<>> /\ resultArg = "nil"
            /\ i = 0
            /\ entry = "CheckOnly" =>
                  /\ config.Talos.UpgradeOrder = ControlPlaneFirst
                  /\ config.K8s.UpgradeOrder = ControlPlaneFirst
       ELSE /\ nodeNames \in Batches
            /\ nodeMap = [j \in 1..Len(cluster) |-> j]  \* names -> endpoints
            /\ resultArg \in IF entry = "upgradeNodesSequentiallyWithResult"
                             THEN {"nil", "result"} ELSE {"nil"}
            /\ i = 1
            /\ config.Talos.UpgradeOrder = ControlPlaneFirst
            /\ config.K8s.UpgradeOrder = ControlPlaneFirst
    /\ successfulNodes = <<>>
    /\ failedNodes = <<>>
    /\ ticks = 0
    /\ batchErr = "nil"
    /\ monitorExit = ""
    /\ observed = {}
    /\ polled = NoPoll
    /\ cancelled = FALSE
    /\ threads = <<>>
    /\ shared = <<>>
    /\ prereq = [ok |-> FALSE, Nodes |-> <<>>]
    /\ planned = NoPlan
    /\ batches = <<>>
    /\ va = <<>> /\ vb = <<>> /\ vc = <<>>
    /\ out = <<>>
    /\ checked = NoCheck
    /\ exitCode = NoExit
    /\ trace = <<>>
    /\ inflight = {}

\* ------------------------------------------------------- history of calls
Call(op, node) == <<"call", op, node>>
Ok(op, node) == <<"ok", op, node>>
Err(op, node) == <<"err", op, node>>
Sleep(what, seconds) == <<"sleep", what, seconds>>

\* time.Sleep(d): what the caller's cancellation is after a step that has
\* brought the trace from tr to slept.  The caller may cancel while the step
\* sleeps; the sleep does not end early and nothing reads the cancellation.
TimeSleep(wasCancelled, tr, slept) ==
    IF ~wasCancelled /\ Len(slept) > Len(tr) /\ slept[Len(slept)][1] = "sleep"
    THEN BOOLEAN
    ELSE {wasCancelled}

UpgraderOf(l) == IF l = "talos" THEN "UpgradeNode" ELSE "UpgradeKubernetesOnNode"
MonitorOf(l) == IF l = "talos" THEN "monitorUpgradeProgress(talos)"
                ELSE "monitorUpgradeProgress(kubernetes)"
GateOf(l) == IF l = "talos" THEN "ValidateTargetVersion(talos)"
             ELSE "ValidateTargetVersion(kubernetes)"

\* variant: the two layer blocks in the opposite order
Phases_Swapped == <<"k8sGate", "talosGate">>

\* PerformUpgrade's two layer blocks in the order of the code (lines 120-135,
\* then lines 137-164); after the last one it returns (lines 166-197)
Phases == <<"talosGate", "k8sGate">>

NextPhase(p) ==
    LET k == CHOOSE k \in 1..Len(Phases) : Phases[k] = p
    IN  IF k < Len(Phases) THEN Phases[k + 1] ELSE "returned"

\* ------------------------------------------------------------ PerformUpgrade
\* variant: the control-plane count is not checked
validateUpgradePrerequisites_NoRoleCheck(info) ==
    /\ info.ok
    /\ ~\E j \in 1..Len(info.Nodes) : ~info.Nodes[j].Ready

\* validateUpgradePrerequisites on the snapshot it fetched: TRUE iff nil
validateUpgradePrerequisites(info) ==
    /\ info.ok
    /\ ~\E j \in 1..Len(info.Nodes) : ~info.Nodes[j].Ready
    /\ Cardinality({j \in 1..Len(info.Nodes) : info.Nodes[j].IsControlPlane}) # 0

\* variant: a node whose comparison fails is left out
RECURSIVE checkTalosUpgradeNeeded_SkipOnError(_, _)
checkTalosUpgradeNeeded_SkipOnError(nodes, targetVersion) ==
    IF nodes = <<>> THEN <<>>
    ELSE LET node == Head(nodes)
             nu == NeedsUpgrade(node.TalosVersion, targetVersion)
         IN  (IF ~nu.err /\ nu.needs THEN <<node.Name>> ELSE <<>>)
                 \o checkTalosUpgradeNeeded_SkipOnError(Tail(nodes), targetVersion)

\* checkTalosUpgradeNeeded: the names of the nodes to upgrade, in node order;
\* a node whose comparison fails is included
RECURSIVE checkTalosUpgradeNeeded(_, _)
checkTalosUpgradeNeeded(nodes, targetVersion) ==
    IF nodes = <<>> THEN <<>>
    ELSE LET node == Head(nodes)
             nu == NeedsUpgrade(node.TalosVersion, targetVersion)
         IN  (IF nu.err \/ nu.needs THEN <<node.Name>> ELSE <<>>)
                 \o checkTalosUpgradeNeeded(Tail(nodes), targetVersion)

\* what a planning snapshot shows: some node older than the target, some
\* node whose version does not compare with the target
PlanOf(nodes, targetVersion) ==
    [older |-> \E j \in 1..Len(nodes) :
                  LET c == Compare(nodes[j].TalosVersion, targetVersion)
                  IN  ~c.err /\ c.res = Older,
     unparsed |-> \E j \in 1..Len(nodes) :
                     Compare(nodes[j].TalosVersion, targetVersion).err,
     listed |-> Len(checkTalosUpgradeNeeded(nodes, targetVersion))]

\* PerformUpgrade, lines 80-94: prerequisites
PerformUpgradeValidate ==
    /\ pc = "PerformUpgrade"
    /\ \E info \in GetClusterInfo :
          /\ prereq' = [ok |-> info.ok,
                        Nodes |-> [j \in 1..Len(info.Nodes) |->
                                     [Ready |-> info.Nodes[j].Ready,
                                      IsControlPlane |-> info.Nodes[j].IsControlPlane]]]
          /\ IF validateUpgradePrerequisites(info)
             THEN /\ pc' = "plan"
                  /\ UNCHANGED <<result, retErr>>
             ELSE /\ result' = AddError(result, "upgrade prerequisites validation failed")
                  /\ retErr' = "upgrade prerequisites validation failed"
                  /\ pc' = "returned"
    /\ UNCHANGED <<fixedVars, cmdVars, runVars, seqVars, planned, batches, layer, groups, g, trace,
                   inflight>>

\* PerformUpgrade, lines 96-118: the planning snapshot and the host-layer plan
PerformUpgradePlan ==
    /\ pc = "plan"
    /\ \E info \in GetClusterInfo :
          IF ~info.ok
          THEN /\ result' = AddError(result, "failed to get cluster information")
               /\ retErr' = "failed to get cluster information"
               /\ pc' = "returned"
               /\ UNCHANGED <<runVars, planned>>
          ELSE LET plan == checkTalosUpgradeNeeded(info.Nodes, config.Talos.Version)
               IN  /\ talosNeedsUpgrade' = (Len(plan) > 0)
                   /\ planned' = PlanOf(info.Nodes, config.Talos.Version)
                   \* only K8sVersion of the snapshot is read after this point
                   /\ clusterInfo' = [info EXCEPT !.Nodes = <<>>, !.TalosVersion = <<>>]
                   /\ snapshotAt' = Len(trace)
                   /\ pc' = Phases[1]
                   /\ UNCHANGED <<result, retErr>>
    /\ UNCHANGED <<fixedVars, prereq, batches, cmdVars, seqVars, layer, groups, g, trace,
                   inflight>>

\* variant: the gate's failure is logged but does not skip the layer
AfterTalosGate_IgnoreGate(gateOk, needsUpgrade) ==
    IF needsUpgrade THEN "upgrade" ELSE "current"

\* variant: the plan's answer is not consulted
AfterTalosGate_IgnorePlan(gateOk, needsUpgrade) ==
    IF ~gateOk THEN "skip" ELSE "upgrade"

\* PerformUpgrade, lines 120-135: what the run does after the host-layer
\* gate: "skip" | "upgrade" | "current"
AfterTalosGate(gateOk, needsUpgrade) ==
    IF ~gateOk THEN "skip"
    ELSE IF needsUpgrade THEN "upgrade"
    ELSE "current"

PerformUpgradeTalosGate ==
    /\ pc = "talosGate"
    /\ \E supported \in SupportedVersionsResults :
          LET gateOk == ValidateTargetVersion(config.Talos.Version, supported)
              todo == AfterTalosGate(gateOk, talosNeedsUpgrade)
          IN  /\ trace' = Append(trace, IF gateOk THEN Ok(GateOf("talos"), 0)
                                        ELSE Err(GateOf("talos"), 0))
              /\ pc' = IF todo = "upgrade" THEN "upgradeTalos"
                       ELSE NextPhase("talosGate")
              /\ retErr' = IF todo # "upgrade" /\ NextPhase("talosGate") = "returned"
                           THEN "nil" ELSE retErr
    /\ layer' = "talos"
    /\ UNCHANGED <<fixedVars, histVars, cmdVars, runVars, seqVars, result, groups, g, inflight>>

\* variant: a failed gate is recorded like a failed version check
AfterK8sGate_GateIsError(gateOk, currentVersion, targetVersion) ==
    IF ~gateOk THEN "error"
    ELSE LET nu == NeedsUpgrade(currentVersion, targetVersion)
         IN  IF nu.err THEN "error"
             ELSE IF nu.needs THEN "upgrade"
             ELSE "current"

\* PerformUpgrade, lines 137-164: what the run does after the orchestration
\* gate: "skip" | "error" | "upgrade" | "current"
AfterK8sGate(gateOk, currentVersion, targetVersion) ==
    IF ~gateOk THEN "skip"
    ELSE LET nu == NeedsUpgrade(currentVersion, targetVersion)
         IN  IF nu.err THEN "error"
             ELSE IF nu.needs THEN "upgrade"
             ELSE "current"

\* variant: the pause is made whenever the orchestration layer is upgraded
StabilizeBeforeK8s_Always(todo, talosUpgraded) == todo = "upgrade"

\* PerformUpgrade, lines 149-154: whether the run sleeps before upgradeKubernetes
StabilizeBeforeK8s(todo, talosUpgraded) == todo = "upgrade" /\ talosUpgraded

PerformUpgradeK8sGate ==
    /\ pc = "k8sGate"
    /\ \E supported \in SupportedVersionsResults :
          LET gateOk == ValidateTargetVersion(config.K8s.Version, supported)
              todo == AfterK8sGate(gateOk, clusterInfo.K8sVersion, config.K8s.Version)
              gated == Append(trace, IF gateOk THEN Ok(GateOf("kubernetes"), 0)
                                     ELSE Err(GateOf("kubernetes"), 0))
          IN  /\ result' = IF todo = "error"
                           THEN AddError(result, "failed to check Kubernetes version")
                           ELSE result
              /\ trace' = IF StabilizeBeforeK8s(todo, result.TalosUpgraded)
                          THEN Append(gated, Sleep("layers", 120))
                          ELSE gated
              /\ pc' = IF todo = "upgrade" THEN "upgradeKubernetes"
                       ELSE NextPhase("k8sGate")
              /\ retErr' = IF todo # "upgrade" /\ NextPhase("k8sGate") = "returned"
                           THEN "nil" ELSE retErr
    /\ layer' = "kubernetes"
    /\ cancelled' \in TimeSleep(cancelled, trace, trace')
    /\ UNCHANGED <<inputVars, histVars, cmdVars, runVars, seqVars, groups, g, inflight>>

\* ------------------------------------------------- role groups of a layer
\* variant: only the nodes that are not at the host-layer target are taken
RECURSIVE NamesWithRole_OnlyOutdated(_, _)
NamesWithRole_OnlyOutdated(nodes, isControlPlane) ==
    IF nodes = <<>> THEN <<>>
    ELSE (IF Head(nodes).IsControlPlane = isControlPlane
             /\ Head(nodes).TalosVersion # config.Talos.Version
          THEN <<Head(nodes).Name>> ELSE <<>>)
             \o NamesWithRole_OnlyOutdated(Tail(nodes), isControlPlane)

\* names of the nodes with the given role, in snapshot order
RECURSIVE NamesWithRole(_, _)
NamesWithRole(nodes, isControlPlane) ==
    IF nodes = <<>> THEN <<>>
    ELSE (IF Head(nodes).IsControlPlane = isControlPlane
          THEN <<Head(nodes).Name>> ELSE <<>>)
             \o NamesWithRole(Tail(nodes), isControlPlane)

\* variant: the configured order is ignored
GroupsInOrder_IgnoreOrder(upgradeOrder, nodes) ==
    <<NamesWithRole(nodes, TRUE), NamesWithRole(nodes, FALSE)>>

\* upgradeTalos / upgradeKubernetes: the two batches in the order they run
GroupsInOrder(upgradeOrder, nodes) ==
    IF upgradeOrder = WorkersFirst
    THEN <<NamesWithRole(nodes, FALSE), NamesWithRole(nodes, TRUE)>>
    ELSE <<NamesWithRole(nodes, TRUE), NamesWithRole(nodes, FALSE)>>

\* the sequencers' nodeMap, reduced to the field they read (Endpoint)
NodeMapOf(nodes) ==
    [name \in {nodes[j].Name : j \in 1..Len(nodes)} |->
        nodes[CHOOSE j \in 1..Len(nodes) :
                /\ nodes[j].Name = name
                /\ \A k \in 1..Len(nodes) : nodes[k].Name = name => k <= j].Endpoint]

\* variant: both layers pause for the host layer's two minutes
StabilizationSeconds_Same(l) == 120

\* seconds slept between the two role groups of a layer (lines 242, 272; 436,
\* 458)
StabilizationSeconds(l) == IF l = "talos" THEN 120 ELSE 60

\* enter a sequencer with a batch
StartBatch(names, k) ==
    /\ nodeNames' = names
    /\ i' = 1
    /\ g' = k
    /\ successfulNodes' = <<>>
    /\ failedNodes' = <<>>
    /\ ticks' = 0
    /\ batchErr' = "nil"
    /\ monitorExit' = ""
    /\ observed' = {}
    /\ polled' = NoPoll
    /\ pc' = "loop"

\* variant: a layer's failure is returned as the run's error
ReturnFromLayer_Propagate(failed) ==
    /\ result' =
          IF layer = "talos"
          THEN IF failed THEN AddError(result, "Talos upgrade failed")
               ELSE [result EXCEPT !.TalosUpgraded = TRUE]
          ELSE IF failed THEN AddError(result, "Kubernetes upgrade failed")
               ELSE [result EXCEPT !.K8sUpgraded = TRUE]
    /\ pc' = IF failed THEN "returned"
             ELSE NextPhase(IF layer = "talos" THEN "talosGate" ELSE "k8sGate")
    /\ retErr' = IF failed
                  THEN IF layer = "talos" THEN "Talos upgrade failed"
                       ELSE "Kubernetes upgrade failed"
                  ELSE IF NextPhase(IF layer = "talos" THEN "talosGate" ELSE "k8sGate")
                            = "returned"
                  THEN "nil" ELSE retErr
    /\ nodeNames' = <<>>
    /\ nodeMap' = <<>>
    /\ groups' = <<>>
    /\ i' = 0
    /\ g' = 0
    /\ successfulNodes' = <<>>
    /\ failedNodes' = <<>>
    /\ ticks' = 0
    /\ batchErr' = "nil"
    /\ monitorExit' = ""
    /\ observed' = {}
    /\ polled' = NoPoll

\* variant: the layer's flag is set whether or not the layer failed
ReturnFromLayer_FlagAnyway(failed) ==
    /\ result' =
          IF layer = "talos"
          THEN IF failed
               THEN [AddError(result, "Talos upgrade failed") EXCEPT !.TalosUpgraded = TRUE]
               ELSE [result EXCEPT !.TalosUpgraded = TRUE]
          ELSE IF failed
               THEN [AddError(result, "Kubernetes upgrade failed") EXCEPT !.K8sUpgraded = TRUE]
               ELSE [result EXCEPT !.K8sUpgraded = TRUE]
    /\ pc' = NextPhase(IF layer = "talos" THEN "talosGate" ELSE "k8sGate")
    /\ retErr' = IF NextPhase(IF layer = "talos" THEN "talosGate" ELSE "k8sGate")
                     = "returned"
                  THEN "nil" ELSE retErr
    /\ nodeNames' = <<>>
    /\ nodeMap' = <<>>
    /\ groups' = <<>>
    /\ i' = 0
    /\ g' = 0
    /\ successfulNodes' = <<>>
    /\ failedNodes' = <<>>
    /\ ticks' = 0
    /\ batchErr' = "nil"
    /\ monitorExit' = ""
    /\ observed' = {}
    /\ polled' = NoPoll

\* upgradeTalos / upgradeKubernetes return to PerformUpgrade, which records
\* the layer's outcome (lines 128-132, 156-160) and, after the second layer,
\* returns (lines 166-197)
ReturnFromLayer(failed) ==
    /\ result' =
          IF layer = "talos"
          THEN IF failed THEN AddError(result, "Talos upgrade failed")
               ELSE [result EXCEPT !.TalosUpgraded = TRUE]
          ELSE IF failed THEN AddError(result, "Kubernetes upgrade failed")
               ELSE [result EXCEPT !.K8sUpgraded = TRUE]
    /\ pc' = NextPhase(IF layer = "talos" THEN "talosGate" ELSE "k8sGate")
    /\ retErr' = IF NextPhase(IF layer = "talos" THEN "talosGate" ELSE "k8sGate")
                     = "returned"
                  THEN "nil" ELSE retErr
    /\ nodeNames' = <<>>
    /\ nodeMap' = <<>>
    /\ groups' = <<>>
    /\ i' = 0
    /\ g' = 0
    /\ successfulNodes' = <<>>
    /\ failedNodes' = <<>>
    /\ ticks' = 0
    /\ batchErr' = "nil"
    /\ monitorExit' = ""
    /\ observed' = {}
    /\ polled' = NoPoll

\* the part of upgradeTalos / upgradeKubernetes before the first batch
StartLayer(upgradeOrder) ==
    \E info \in GetClusterInfo :
        IF ~info.ok
        THEN ReturnFromLayer(TRUE)
        ELSE LET gs == GroupsInOrder(upgradeOrder, info.Nodes)
             IN  IF gs[1] = <<>> /\ gs[2] = <<>>
                 THEN ReturnFromLayer(FALSE)
                 ELSE /\ groups' = gs
                      /\ nodeMap' = NodeMapOf(info.Nodes)
                      /\ IF gs[1] # <<>> THEN StartBatch(gs[1], 1)
                                         ELSE StartBatch(gs[2], 2)
                      /\ UNCHANGED <<result, retErr>>

\* upgradeTalos, lines 201-231 / 259-261
upgradeTalos ==
    /\ pc = "upgradeTalos"
    /\ StartLayer(config.Talos.UpgradeOrder)
    /\ UNCHANGED <<fixedVars, histVars, cmdVars, runVars, layer, trace, inflight>>

\* upgradeKubernetes, lines 393-429 / 449-451
upgradeKubernetes ==
    /\ pc = "upgradeKubernetes"
    /\ StartLayer(config.K8s.UpgradeOrder)
    /\ UNCHANGED <<fixedVars, histVars, cmdVars, runVars, layer, trace, inflight>>

\* what upgradeTalos / upgradeKubernetes do when a batch returns
\* (lines 232-256, 262-286; 430-446, 452-468): "fail" | "sleep" | "done"
\* variant: the second group is run whatever the first batch returned
AfterBatch_RunSecondAnyway(err, k) ==
    IF k = 1 THEN "sleep"
    ELSE IF err # "nil" THEN "fail"
    ELSE "done"

AfterBatch(err, k) ==
    IF err # "nil" THEN "fail"
    ELSE IF k = 1 THEN "sleep"
    ELSE "done"

\* a sequencer returns to its caller
BatchReturn ==
    /\ pc = "batchReturn"
    /\ IF entry # "PerformUpgrade"
       THEN /\ retErr' = batchErr
            /\ pc' = "returned"
            /\ UNCHANGED <<result, seqVars, groups, g, trace>>
       ELSE LET todo == AfterBatch(batchErr, g)
            IN  IF todo = "fail"
                THEN ReturnFromLayer(TRUE) /\ UNCHANGED trace
                ELSE IF todo = "sleep"
                THEN /\ trace' = Append(trace, Sleep("groups", StabilizationSeconds(layer)))
                     /\ IF groups[2] # <<>>
                        THEN /\ StartBatch(groups[2], 2)
                             /\ UNCHANGED <<result, retErr, nodeMap, groups>>
                        ELSE ReturnFromLayer(FALSE)
                ELSE ReturnFromLayer(FALSE) /\ UNCHANGED trace
    /\ batches' = Append(batches, <<layer, batchErr>>)
    /\ cancelled' \in TimeSleep(cancelled, trace, trace')
    /\ UNCHANGED <<inputVars, prereq, planned, cmdVars, runVars, layer, inflight>>

\* ------------------------------------------------------------ sequencers
\* nodeInfo, exists := nodeMap[nodeName]
Exists(map, nodeName) == nodeName \in DOMAIN map

\* variant: a name missing from the lookup table is skipped
SequencerNext_SkipMissing ==
    /\ pc = "loop"
    /\ IF i > Len(nodeNames)
       THEN /\ pc' = "monitor"
            /\ trace' = Append(trace, Call(MonitorOf(layer), 0))
            /\ UNCHANGED <<i, inflight>>
       ELSE IF ~Exists(nodeMap, nodeNames[i])
       THEN /\ i' = i + 1
            /\ UNCHANGED <<pc, trace, inflight>>
       ELSE /\ trace' = Append(trace, Call(UpgraderOf(layer), nodeMap[nodeNames[i]]))
            /\ inflight' = inflight \cup {<<UpgraderOf(layer), nodeMap[nodeNames[i]]>>}
            /\ pc' = UpgraderOf(layer)
            /\ UNCHANGED i
    /\ UNCHANGED <<fixedVars, histVars, cmdVars, runVars, result, retErr, layer, groups, g,
                   nodeNames, nodeMap, successfulNodes, failedNodes, ticks, batchErr,
                   monitorExit, observed, polled>>

\* head of the loop of upgradeNodesSequentiallyWithResult (lines 311-330) and
\* of upgradeKubernetesOnNodes (lines 489-503): look the node up and invoke
\* the layer's upgrader, or leave the loop for the monitor (lines 379-382,
\* 517-520)
SequencerNext ==
    /\ pc = "loop"
    /\ IF i > Len(nodeNames)
       THEN /\ pc' = "monitor"
            /\ trace' = Append(trace, Call(MonitorOf(layer), 0))
            /\ UNCHANGED <<batchErr, inflight>>
       ELSE IF ~Exists(nodeMap, nodeNames[i])
       THEN /\ batchErr' = "node not found in cluster info"
            /\ pc' = "batchReturn"
            /\ UNCHANGED <<trace, inflight>>
       ELSE /\ trace' = Append(trace, Call(UpgraderOf(layer), nodeMap[nodeNames[i]]))
            /\ inflight' = inflight \cup {<<UpgraderOf(layer), nodeMap[nodeNames[i]]>>}
            /\ pc' = UpgraderOf(layer)
            /\ UNCHANGED batchErr
    /\ UNCHANGED <<fixedVars, histVars, cmdVars, runVars, result, retErr, layer, groups, g, nodeNames,
                   nodeMap, i, successfulNodes, failedNodes, ticks, monitorExit,
                   observed, polled>>

\* the inter-node sleep at the end of an iteration (lines 372-376, 510-514)
InterNodeSleep(tr, idx, names) ==
    IF idx < Len(names) THEN Append(tr, Sleep("nodes", 30)) ELSE tr

\* variant: a failed UpgradeNode ends the batch with an error
UpgradeNodeReturn_Abort ==
    /\ pc = "UpgradeNode"
    /\ LET nodeName == nodeNames[i]
           endpoint == nodeMap[nodeName]
       IN  \E ok \in BOOLEAN :
              IF ~ok
              THEN /\ result' = IF resultArg # "nil"
                                THEN AddError(AddFailedNode(result, nodeName),
                                              "failed to upgrade node")
                                ELSE result
                   /\ trace' = Append(trace, Err("UpgradeNode", endpoint))
                   /\ inflight' = inflight \ {<<"UpgradeNode", endpoint>>}
                   /\ batchErr' = "failed to upgrade node"
                   /\ pc' = "batchReturn"
              ELSE /\ trace' = trace \o <<Ok("UpgradeNode", endpoint),
                                          Call("WaitForNodeReboot", endpoint)>>
                   /\ inflight' = (inflight \ {<<"UpgradeNode", endpoint>>})
                                      \cup {<<"WaitForNodeReboot", endpoint>>}
                   /\ pc' = "WaitForNodeReboot"
                   /\ UNCHANGED <<result, batchErr>>
    /\ UNCHANGED <<fixedVars, histVars, cmdVars, runVars, retErr, layer, groups, g, nodeNames,
                   nodeMap, i, successfulNodes, failedNodes, ticks, monitorExit,
                   observed, polled>>

\* variant: the health wait is started but not awaited
UpgradeNodeReturn_Async ==
    /\ pc = "UpgradeNode"
    /\ LET nodeName == nodeNames[i]
           endpoint == nodeMap[nodeName]
       IN  \E ok \in BOOLEAN :
              IF ~ok
              THEN /\ result' = IF resultArg # "nil"
                                THEN AddError(AddFailedNode(result, nodeName),
                                              "failed to upgrade node")
                                ELSE result
                   /\ trace' = Append(trace, Err("UpgradeNode", endpoint))
                   /\ inflight' = inflight \ {<<"UpgradeNode", endpoint>>}
              ELSE /\ trace' = trace \o <<Ok("UpgradeNode", endpoint),
                                          Call("WaitForNodeReboot", endpoint)>>
                   /\ inflight' = (inflight \ {<<"UpgradeNode", endpoint>>})
                                      \cup {<<"WaitForNodeReboot", endpoint>>}
                   /\ UNCHANGED result
    /\ i' = i + 1
    /\ pc' = "loop"
    /\ UNCHANGED <<fixedVars, histVars, cmdVars, runVars, retErr, layer, groups, g, nodeNames,
                   nodeMap, successfulNodes, failedNodes, ticks, batchErr, monitorExit,
                   observed, polled>>

\* upgradeNodesSequentiallyWithResult, lines 329-351: UpgradeNode returns; on
\* failure the node is recorded and the loop continues with the next node,
\* on success the health wait is started
UpgradeNodeReturn ==
    /\ pc = "UpgradeNode"
    /\ LET nodeName == nodeNames[i]
           endpoint == nodeMap[nodeName]
       IN  \E ok \in BOOLEAN :
              IF ~ok
              THEN /\ result' = IF resultArg # "nil"
                                THEN AddError(AddFailedNode(result, nodeName),
                                              "failed to upgrade node")
                                ELSE result
                   /\ trace' = Append(trace, Err("UpgradeNode", endpoint))
                   /\ inflight' = inflight \ {<<"UpgradeNode", endpoint>>}
                   /\ i' = i + 1
                   /\ pc' = "loop"
              ELSE /\ trace' = trace \o <<Ok("UpgradeNode", endpoint),
                                          Call("WaitForNodeReboot", endpoint)>>
                   /\ inflight' = (inflight \ {<<"UpgradeNode", endpoint>>})
                                      \cup {<<"WaitForNodeReboot", endpoint>>}
                   /\ pc' = "WaitForNodeReboot"
                   /\ UNCHANGED <<result, i>>
    /\ UNCHANGED <<fixedVars, histVars, cmdVars, runVars, retErr, layer, groups, g, nodeNames, nodeMap,
                   successfulNodes, failedNodes, ticks, batchErr, monitorExit,
                   observed, polled>>

\* upgradeNodesSequentiallyWithResult, lines 351-377: the health wait returns
WaitForNodeRebootReturn ==
    /\ pc = "WaitForNodeReboot"
    /\ LET nodeName == nodeNames[i]
           endpoint == nodeMap[nodeName]
       IN  \E ok \in BOOLEAN :
              /\ result' = IF resultArg = "nil" THEN result
                           ELSE IF ok THEN AddUpgradedNode(result, nodeName)
                           ELSE AddError(AddFailedNode(result, nodeName),
                                         "node failed to come back online")
              /\ trace' = InterNodeSleep(
                              Append(trace, IF ok THEN Ok("WaitForNodeReboot", endpoint)
                                            ELSE Err("WaitForNodeReboot", endpoint)),
                              i, nodeNames)
              /\ inflight' = inflight \ {<<"WaitForNodeReboot", endpoint>>}
    /\ i' = i + 1
    /\ pc' = "loop"
    /\ cancelled' \in TimeSleep(cancelled, trace, trace')
    /\ UNCHANGED <<inputVars, histVars, cmdVars, runVars, retErr, layer, groups, g, nodeNames, nodeMap,
                   successfulNodes, failedNodes, ticks, batchErr, monitorExit,
                   observed, polled>>

\* upgradeKubernetesOnNodes, lines 503-514: the Workload Upgrader returns; a
\* failure is returned to the caller at once
UpgradeKubernetesOnNodeReturn ==
    /\ pc = "UpgradeKubernetesOnNode"
    /\ LET endpoint == nodeMap[nodeNames[i]]
       IN  \E ok \in BOOLEAN :
              /\ inflight' = inflight \ {<<"UpgradeKubernetesOnNode", endpoint>>}
              /\ IF ~ok
                 THEN /\ trace' = Append(trace, Err("UpgradeKubernetesOnNode", endpoint))
                      /\ batchErr' = "failed to upgrade Kubernetes on node"
                      /\ pc' = "batchReturn"
                      /\ UNCHANGED i
                 ELSE /\ trace' = InterNodeSleep(
                                      Append(trace, Ok("UpgradeKubernetesOnNode", endpoint)),
                                      i, nodeNames)
                      /\ i' = i + 1
                      /\ pc' = "loop"
                      /\ UNCHANGED batchErr
    /\ cancelled' \in TimeSleep(cancelled, trace, trace')
    /\ UNCHANGED <<inputVars, histVars, cmdVars, runVars, result, retErr, layer, groups, g, nodeNames,
                   nodeMap, successfulNodes, failedNodes, ticks, monitorExit,
                   observed, polled>>

\* --------------------------------------------------------- progress monitor
\* checkNodeHealth on the snapshot it fetched: [healthy, err]
checkNodeHealth(info, nodeName, targetVersion, upgradeType) ==
    IF ~info.ok THEN [healthy |-> FALSE, err |-> TRUE]
    ELSE IF ~\E j \in 1..Len(info.Nodes) : info.Nodes[j].Name = nodeName
    THEN [healthy |-> FALSE, err |-> TRUE]
    ELSE LET node == info.Nodes[CHOOSE j \in 1..Len(info.Nodes) :
                        /\ info.Nodes[j].Name = nodeName
                        /\ \A k \in 1..(j - 1) : info.Nodes[k].Name # nodeName]
         IN  IF ~node.Ready THEN [healthy |-> FALSE, err |-> FALSE]
             ELSE IF upgradeType = "talos"
             THEN [healthy |-> (node.TalosVersion = targetVersion), err |-> FALSE]
             ELSE IF upgradeType = "kubernetes"
             THEN [healthy |-> (info.K8sVersion = targetVersion), err |-> FALSE]
             ELSE [healthy |-> FALSE, err |-> TRUE]

\* the convergence the monitor is to wait for, read off a snapshot: the node
\* is listed, ready, and reports the target version (host layer: its own
\* version; orchestration layer: the cluster-wide version)
Converged(info, nodeName, targetVersion, upgradeType) ==
    /\ info.ok
    /\ \E j \in 1..Len(info.Nodes) :
          /\ info.Nodes[j].Name = nodeName
          /\ info.Nodes[j].Ready
          /\ IF upgradeType = "talos"
             THEN info.Nodes[j].TalosVersion = targetVersion
             ELSE info.K8sVersion = targetVersion

\* what checkNodeHealth can return for a node, over the snapshots it can
\* get, each with what the snapshot showed (history); tabulated per topology,
\* the snapshot sets being the same at every call
HealthTable ==
    {[topology |-> topology, nodeName |-> nodeName, upgradeType |-> upgradeType,
      targetVersion |-> targetVersion,
      results |-> {[res |-> checkNodeHealth(info, nodeName, targetVersion, upgradeType),
                    converged |-> Converged(info, nodeName, targetVersion, upgradeType)] :
                      info \in GetClusterInfoOf(topology)}] :
        topology \in Topologies, nodeName \in Names,
        upgradeType \in {"talos", "kubernetes"}, targetVersion \in Targets}

HealthResults(nodeName, targetVersion, upgradeType) ==
    (CHOOSE row \in HealthTable :
        /\ row.topology = cluster
        /\ row.nodeName = nodeName
        /\ row.upgradeType = upgradeType
        /\ row.targetVersion = targetVersion).results

TargetOf(l) == IF l = "talos" THEN config.Talos.Version ELSE config.K8s.Version

\* variant: a node already successful is evaluated again at every pass
RECURSIVE TickLoop_Recheck(_, _, _, _, _)
TickLoop_Recheck(k, names, health, succ, failed) ==
    IF k > Len(names) THEN succ
    ELSE IF contains(failed, names[k])
    THEN TickLoop_Recheck(k + 1, names, health, succ, failed)
    ELSE IF health[k].res.err THEN TickLoop_Recheck(k + 1, names, health, succ, failed)
    ELSE IF health[k].res.healthy
    THEN TickLoop_Recheck(k + 1, names, health, Append(succ, names[k]), failed)
    ELSE TickLoop_Recheck(k + 1, names, health, succ, failed)

\* variant: a node whose check returned an error counts as upgraded
RECURSIVE TickLoop_ErrorIsSuccess(_, _, _, _, _)
TickLoop_ErrorIsSuccess(k, names, health, succ, failed) ==
    IF k > Len(names) THEN succ
    ELSE IF contains(succ, names[k]) \/ contains(failed, names[k])
    THEN TickLoop_ErrorIsSuccess(k + 1, names, health, succ, failed)
    ELSE IF health[k].res.err \/ health[k].res.healthy
    THEN TickLoop_ErrorIsSuccess(k + 1, names, health, Append(succ, names[k]), failed)
    ELSE TickLoop_ErrorIsSuccess(k + 1, names, health, succ, failed)

\* one pass of the monitor's loop over nodeNames (lines 589-615), from
\* position k, given each position's checkNodeHealth result
RECURSIVE TickLoop(_, _, _, _, _)
TickLoop(k, names, health, succ, failed) ==
    IF k > Len(names) THEN succ
    ELSE IF contains(succ, names[k]) \/ contains(failed, names[k])
    THEN TickLoop(k + 1, names, health, succ, failed)
    ELSE IF health[k].res.err THEN TickLoop(k + 1, names, health, succ, failed)
    ELSE IF health[k].res.healthy
    THEN TickLoop(k + 1, names, health, Append(succ, names[k]), failed)
    ELSE TickLoop(k + 1, names, health, succ, failed)

\* the positions of nodeNames for which that pass calls checkNodeHealth
RECURSIVE TickChecked(_, _, _, _, _)
TickChecked(k, names, health, succ, failed) ==
    IF k > Len(names) THEN {}
    ELSE IF contains(succ, names[k]) \/ contains(failed, names[k])
    THEN TickChecked(k + 1, names, health, succ, failed)
    ELSE IF ~health[k].res.err /\ health[k].res.healthy
    THEN {k} \cup TickChecked(k + 1, names, health, Append(succ, names[k]), failed)
    ELSE {k} \cup TickChecked(k + 1, names, health, succ, failed)

\* variant: one successful node is enough
AllSuccessful_Any(succ, names) == Len(succ) >= 1 \/ Len(names) = 0

\* the monitor's exit test after a pass (line 618)
AllSuccessful(succ, names) == Len(succ) = Len(names)

\* monitorUpgradeProgress, case <-ticker.C (lines 585-631)
MonitorTick ==
    /\ pc = "monitor"
    /\ ticks < MaxTicks
    /\ \E health \in [1..Len(nodeNames) ->
                        UNION {HealthResults(n, TargetOf(layer), layer) : n \in Names}] :
          /\ \A k \in 1..Len(nodeNames) :
                health[k] \in HealthResults(nodeNames[k], TargetOf(layer), layer)
          /\ LET succ == TickLoop(1, nodeNames, health, successfulNodes, failedNodes)
                 asked == TickChecked(1, nodeNames, health, successfulNodes, failedNodes)
             IN  /\ successfulNodes' = succ
                 /\ polled' =
                       [checked |-> {nodeNames[k] : k \in asked},
                        erred |-> {nodeNames[k] : k \in {k \in asked : health[k].res.err}},
                        erredBefore |-> polled.erredBefore \cup polled.erred]
                 /\ observed' = observed \cup
                       {nodeNames[k] : k \in
                           {k \in 1..Len(nodeNames) :
                               /\ ~contains(successfulNodes, nodeNames[k])
                               /\ ~contains(failedNodes, nodeNames[k])
                               /\ health[k].converged}}
                 /\ IF AllSuccessful(succ, nodeNames)
                    THEN /\ batchErr' = "nil"
                         /\ monitorExit' = "tick"
                         /\ pc' = "batchReturn"
                    ELSE UNCHANGED <<batchErr, monitorExit, pc>>
    /\ ticks' = ticks + 1
    /\ UNCHANGED <<fixedVars, histVars, cmdVars, runVars, result, retErr, layer, groups, g, nodeNames,
                   nodeMap, i, failedNodes, trace, inflight>>

\* the error monitorUpgradeProgress returns at the deadline (lines 576-583)
TimeoutError(failed) ==
    IF Len(failed) > 0 THEN "upgrade monitoring timed out" ELSE "nil"

\* monitorUpgradeProgress, case <-timeoutCtx.Done() (lines 575-583); the
\* first tick (30s) is ready long before the deadline (10min)
MonitorTimeout ==
    /\ pc = "monitor"
    /\ ticks >= 1
    /\ batchErr' = IF TimeoutError(failedNodes) = "nil" THEN "nil"
                   ELSE "upgrade monitoring failed"
    /\ monitorExit' = "deadline"
    /\ pc' = "batchReturn"
    /\ UNCHANGED <<fixedVars, histVars, cmdVars, runVars, result, retErr, layer, groups, g, nodeNames,
                   nodeMap, i, successfulNodes, failedNodes, ticks, observed, polled, trace,
                   inflight>>

\* ------------------------------------------------------------ check-only
\* CheckOnly (lines 719-793) on the snapshot and the two release-index
\* answers it gets: the error it returns, the decisions it reports, and the
\* gate calls it made
CheckOnlyOutcome(info, talosSupported, k8sSupported) ==
    LET talos == NeedsUpgrade(info.TalosVersion, config.Talos.Version)
        talosAvailable == ValidateTargetVersion(config.Talos.Version, talosSupported)
        k8sAvailable == ValidateTargetVersion(config.K8s.Version, k8sSupported)
        k8s == NeedsUpgrade(info.K8sVersion, config.K8s.Version)
        talosGate == IF talosAvailable THEN Ok(GateOf("talos"), 0)
                     ELSE Err(GateOf("talos"), 0)
        k8sGate == IF k8sAvailable THEN Ok(GateOf("kubernetes"), 0)
                   ELSE Err(GateOf("kubernetes"), 0)
    IN  IF ~info.ok
        THEN [err |-> "failed to get cluster information", checked |-> NoCheck,
              calls |-> <<>>]
        ELSE IF talos.err
        THEN [err |-> "failed to check Talos version", checked |-> NoCheck,
              calls |-> <<>>]
        ELSE IF k8sAvailable /\ k8s.err
        THEN [err |-> "failed to check Kubernetes version",
              checked |-> [NoCheck EXCEPT
                              !.talosNeedsUpgrade = talos.needs /\ talosAvailable,
                              !.talosVersionAvailable = talosAvailable,
                              !.k8sVersionAvailable = TRUE],
              calls |-> <<talosGate, k8sGate>>]
        ELSE [err |-> "nil",
              checked |-> [talosNeedsUpgrade |-> talos.needs /\ talosAvailable,
                           talosVersionAvailable |-> talosAvailable,
                           k8sNeedsUpgrade |-> k8sAvailable /\ k8s.needs,
                           k8sVersionAvailable |-> k8sAvailable],
              calls |-> <<talosGate, k8sGate>>]

\* variant: a needed host-layer upgrade is started instead of reported
CheckOnly_Perform ==
    /\ pc = "CheckOnly"
    /\ \E info \in GetClusterInfo, talosSupported \in SupportedVersionsResults,
          k8sSupported \in SupportedVersionsResults :
          LET outcome == CheckOnlyOutcome(info, talosSupported, k8sSupported)
          IN  /\ retErr' = outcome.err
              /\ checked' = outcome.checked
              /\ trace' = trace \o outcome.calls
              /\ pc' = IF outcome.err = "nil" /\ outcome.checked.talosNeedsUpgrade
                       THEN "upgradeTalos" ELSE "returned"
    /\ UNCHANGED <<fixedVars, histVars, runVars, seqVars, exitCode, result, layer,
                   groups, g, inflight>>

\* CheckOnly, lines 719-793: fetch, compare, gate, report, return
CheckOnly ==
    /\ pc = "CheckOnly"
    /\ \E info \in GetClusterInfo, talosSupported \in SupportedVersionsResults,
          k8sSupported \in SupportedVersionsResults :
          LET outcome == CheckOnlyOutcome(info, talosSupported, k8sSupported)
          IN  /\ retErr' = outcome.err
              /\ checked' = outcome.checked
              /\ trace' = trace \o outcome.calls
    /\ pc' = "returned"
    /\ UNCHANGED <<fixedVars, histVars, runVars, seqVars, exitCode, result, layer,
                   groups, g, inflight>>

\* PerformUpgrade, lines 90-147: the layers whose upgrade a run starts when
\* every fetch of the run returns the snapshot info and the release index
\* answers the two gates as given
PerformUpgradeDecisions(info, talosSupported, k8sSupported) ==
    [talos |->
        /\ validateUpgradePrerequisites(info)
        /\ AfterTalosGate(ValidateTargetVersion(config.Talos.Version, talosSupported),
                          Len(checkTalosUpgradeNeeded(info.Nodes, config.Talos.Version)) > 0)
              = "upgrade",
     kubernetes |->
        /\ validateUpgradePrerequisites(info)
        /\ AfterK8sGate(ValidateTargetVersion(config.K8s.Version, k8sSupported),
                        info.K8sVersion, config.K8s.Version)
              = "upgrade"]

\* ---------------------------------------------------------------- command
\* variant: the result's recorded errors are not looked at
ExitCodeOf_IgnoreResult(mode, err, r) ==
    IF err # "nil" THEN 1 ELSE 0

\* run's exit code after the manager call (part_000 lines 124-159)
ExitCodeOf(mode, err, r) ==
    IF mode = "CheckOnly"
    THEN IF err # "nil" THEN 1 ELSE 0
    ELSE IF err # "nil" THEN 1
    ELSE IF HasErrors(r) THEN 1
    ELSE 0

\* run, lines 124-159: the manager call has returned; run returns
runReturn ==
    /\ entry \in CommandEntries
    /\ pc = "returned"
    /\ exitCode = NoExit
    /\ exitCode' = ExitCodeOf(entry, retErr, result)
    /\ UNCHANGED <<fixedVars, histVars, runVars, seqVars, checked, pc, result, retErr,
                   layer, groups, g, trace, inflight>>

\* ---------------------------------------------------------- specification
Next ==
    \/ PerformUpgradeValidate
    \/ PerformUpgradePlan
    \/ PerformUpgradeTalosGate
    \/ upgradeTalos
    \/ PerformUpgradeK8sGate
    \/ upgradeKubernetes
    \/ SequencerNext
    \/ UpgradeNodeReturn
    \/ WaitForNodeRebootReturn
    \/ UpgradeKubernetesOnNodeReturn
    \/ MonitorTick
    \/ MonitorTimeout
    \/ BatchReturn
    \/ CheckOnly
    \/ runReturn

Spec == Init /\ [][Next]_vars

\* ------------------------------------------------- the comparator on its own
\* the version package called directly: any three strings, one call
VersionInit ==
    /\ entry = "version"
    /\ pc = "version"
    /\ va \in VersionStrings
    /\ vb \in VersionStrings
    /\ vc \in VersionStrings
    /\ out = <<>>
    /\ config = [Talos |-> [Version |-> V110, UpgradeOrder |-> ControlPlaneFirst],
                 K8s |-> [Version |-> V110, UpgradeOrder |-> ControlPlaneFirst]]
    /\ cluster = <<>>
    /\ result = NewUpgradeResult
    /\ retErr = ""
    /\ talosNeedsUpgrade = FALSE
    /\ clusterInfo = NoClusterInfo
    /\ snapshotAt = 0
    /\ layer = "talos"
    /\ groups = <<>>
    /\ g = 0
    /\ nodeNames = <<>> /\ nodeMap = <<>> /\ resultArg = "nil"
    /\ i = 0
    /\ successfulNodes = <<>>
    /\ failedNodes = <<>>
    /\ ticks = 0
    /\ batchErr = "nil"
    /\ monitorExit = ""
    /\ observed = {}
    /\ polled = NoPoll
    /\ cancelled = FALSE
    /\ threads = <<>>
    /\ shared = <<>>
    /\ prereq = [ok |-> FALSE, Nodes |-> <<>>]
    /\ planned = NoPlan
    /\ batches = <<>>
    /\ checked = NoCheck
    /\ exitCode = NoExit
    /\ trace = <<>>
    /\ inflight = {}

\* what a comparator call leaves alone
versionFrame ==
    <<entry, config, cluster, resultArg, va, vb, vc, histVars, cmdVars, runVars,
      seqVars, cancelled, threads, shared, result, retErr, layer, groups, g, trace,
      inflight>>

\* Compare applied to the pairs of the three strings
CompareCall ==
    /\ pc = "version"
    /\ out' = [ab |-> Compare(va, vb), ba |-> Compare(vb, va),
               bc |-> Compare(vb, vc), ac |-> Compare(va, vc)]
    /\ pc' = "Compare"
    /\ UNCHANGED versionFrame

\* both comparators applied to the first two strings, and each of them to the
\* first string and itself
CompareVersionsCall ==
    /\ pc = "version"
    /\ out' = [Compare |-> Compare(va, vb),
               CompareVersions |-> CompareVersions(va, vb),
               NeedsUpgrade |-> NeedsUpgrade(va, vb),
               IsVersionUpgradeNeeded |-> IsVersionUpgradeNeeded(va, vb),
               accepted |-> [version |-> ~Compare(va, va).err,
                             k8s |-> ~CompareVersions(va, va).err]]
    /\ pc' = "CompareVersions"
    /\ UNCHANGED versionFrame

\* parseVersion applied to the first string, as its callers apply it (the
\* 'v' removed), and Compare of the first two
parseVersionCall ==
    /\ pc = "version"
    /\ out' = [parsed |-> parseVersion(TrimPrefix(va, "v")), ab |-> Compare(va, vb)]
    /\ pc' = "parseVersion"
    /\ UNCHANGED versionFrame

\* NeedsUpgrade applied to the first two strings, and Compare of the same
NeedsUpgradeCall ==
    /\ pc = "version"
    /\ out' = [needsUpgrade |-> NeedsUpgrade(va, vb), ab |-> Compare(va, vb)]
    /\ pc' = "NeedsUpgrade"
    /\ UNCHANGED versionFrame

\* ValidateTargetVersion applied to the first string, the release index
\* answering with releases tagged by the other two
ValidateTargetVersionCall ==
    /\ pc = "version"
    /\ \E responded \in BOOLEAN, releases \in GitHubReleases({vb, vc}) :
          \E supported \in {GetSupportedVersions(responded, releases)} :
             out' = [ok |-> ValidateTargetVersion(va, supported),
                     supported |-> supported, targetVersion |-> va]
    /\ pc' = "ValidateTargetVersion"
    /\ UNCHANGED versionFrame

\* checkTalosUpgradeNeeded applied to a snapshot of two nodes reporting the
\* first two strings, the third being the target
checkTalosUpgradeNeededCall ==
    /\ pc = "version"
    /\ LET nodesToUpgrade ==
              checkTalosUpgradeNeeded(<<[Name |-> 1, TalosVersion |-> va],
                                        [Name |-> 2, TalosVersion |-> vb]>>, vc)
       IN  out' = [needsUpgrade |-> Len(nodesToUpgrade) > 0,
                   nodesToUpgrade |-> nodesToUpgrade]
    /\ pc' = "checkTalosUpgradeNeeded"
    /\ UNCHANGED versionFrame

\* GetSupportedVersionsWithContext, the release index answering the three
\* attempts with feeds tagged by the three strings
GetSupportedVersionsCall ==
    /\ pc = "version"
    /\ \E f1 \in FetchResults(va), f2 \in FetchResults(vb), f3 \in FetchResults(vc) :
          out' = [fetches |-> <<f1, f2, f3>>,
                  supported |-> GetSupportedVersionsWithContext(1, <<f1, f2, f3>>)]
    /\ pc' = "GetSupportedVersions"
    /\ UNCHANGED versionFrame

\* fetchVersionsFromGitHub on a feed whose releases are tagged by the last two
\* strings
fetchVersionsFromGitHubCall ==
    /\ pc = "version"
    /\ \E releases \in GitHubReleases({vb, vc}) :
          out' = [releases |-> releases,
                  fetched |-> fetchVersionsFromGitHub(TRUE, releases)]
    /\ pc' = "fetchVersionsFromGitHub"
    /\ UNCHANGED versionFrame

\* CheckOnly and PerformUpgrade on the same snapshot and release index: a
\* control plane and a worker, both ready, the cluster-wide host version being
\* the first string and the nodes reporting the other two
DryRunCall ==
    /\ pc = "version"
    /\ \E kv \in K8sVersions, talosSupported \in SupportedVersionsResults,
          k8sSupported \in SupportedVersionsResults :
          \E info \in {[ok |-> TRUE, TalosVersion |-> va, K8sVersion |-> kv,
                         Nodes |-> <<[Name |-> 1, TalosVersion |-> vb, Ready |-> TRUE,
                                      IsControlPlane |-> TRUE, Endpoint |-> 1],
                                     [Name |-> 2, TalosVersion |-> vc, Ready |-> TRUE,
                                      IsControlPlane |-> FALSE, Endpoint |-> 2]>>]} :
              out' = [info |-> info,
                      checkOnly |-> CheckOnlyOutcome(info, talosSupported, k8sSupported),
                      performUpgrade |-> PerformUpgradeDecisions(info, talosSupported,
                                                                 k8sSupported)]
    /\ pc' = "CheckOnly"
    /\ UNCHANGED versionFrame

VersionNext ==
    \/ DryRunCall
    \/ CompareVersionsCall
    \/ fetchVersionsFromGitHubCall
    \/ GetSupportedVersionsCall
    \/ checkTalosUpgradeNeededCall
    \/ CompareCall
    \/ parseVersionCall
    \/ NeedsUpgradeCall
    \/ ValidateTargetVersionCall

VersionSpec == VersionInit /\ [][VersionNext]_vars

\* ------------------------------------------- the result object on its own
\* the manager's variables while no entry point of the manager runs
NoRun ==
    /\ config = [Talos |-> [Version |-> V110, UpgradeOrder |-> ControlPlaneFirst],
                 K8s |-> [Version |-> V110, UpgradeOrder |-> ControlPlaneFirst]]
    /\ cluster = <<>>
    /\ retErr = ""
    /\ talosNeedsUpgrade = FALSE
    /\ clusterInfo = NoClusterInfo
    /\ snapshotAt = 0
    /\ layer = "talos"
    /\ groups = <<>>
    /\ g = 0
    /\ nodeNames = <<>> /\ nodeMap = <<>> /\ resultArg = "nil"
    /\ i = 0
    /\ successfulNodes = <<>>
    /\ failedNodes = <<>>
    /\ ticks = 0
    /\ batchErr = "nil"
    /\ monitorExit = ""
    /\ observed = {}
    /\ polled = NoPoll
    /\ cancelled = FALSE
    /\ prereq = [ok |-> FALSE, Nodes |-> <<>>]
    /\ planned = NoPlan
    /\ batches = <<>>
    /\ checked = NoCheck
    /\ exitCode = NoExit
    /\ inflight = {}

\* a fresh UpgradeResult, on which any caller may call the two methods
ResultInit ==
    /\ entry = "UpgradeResult"
    /\ pc = "UpgradeResult"
    /\ result = NewUpgradeResult
    /\ trace = <<>>
    /\ va = V100 /\ vb = V100 /\ vc = V100
    /\ out = <<>>
    /\ threads = <<>>
    /\ shared = <<>>
    /\ NoRun

\* what a call on the result leaves alone
resultFrame ==
    <<entry, config, cluster, pc, resultArg, va, vb, vc, out, histVars, cmdVars,
      runVars, seqVars, cancelled, threads, shared, retErr, layer, groups, g,
      inflight>>

\* r.AddUpgradedNode(nodeName)
AddUpgradedNodeCall ==
    /\ pc = "UpgradeResult"
    /\ Len(trace) < MaxCalls
    /\ \E nodeName \in Names :
          /\ result' = AddUpgradedNode(result, nodeName)
          /\ trace' = Append(trace, Call("AddUpgradedNode", nodeName))
    /\ UNCHANGED resultFrame

\* r.AddFailedNode(nodeName)
AddFailedNodeCall ==
    /\ pc = "UpgradeResult"
    /\ Len(trace) < MaxCalls
    /\ \E nodeName \in Names :
          /\ result' = AddFailedNode(result, nodeName)
          /\ trace' = Append(trace, Call("AddFailedNode", nodeName))
    /\ UNCHANGED resultFrame

ResultNext ==
    \/ AddUpgradedNodeCall
    \/ AddFailedNodeCall

ResultSpec == ResultInit /\ [][ResultNext]_vars

\* ------------------------------------------------ the node endpoint cache
\* goroutines calling GetNodeEndpointFromTalos at the same time
Callers == 1..MaxCallers

\* c.GetTalosEndpoints(): the endpoints of the Talos configuration
TalosEndpoints == [k \in 1..MaxNodes |-> k]

\* "var nodeEndpointCache map[string]string": nil until a build makes it
NilCache == [isNil |-> TRUE, map |-> <<>>]

\* nodeEndpointCache[hostname] = endpoint
Cached(map, hostname, endpoint) ==
    [h \in DOMAIN map \cup {hostname} |-> IF h = hostname THEN endpoint ELSE map[h]]

\* concurrent first callers, each asking for some node; no cache yet
CacheInit ==
    /\ entry = "GetNodeEndpointFromTalos"
    /\ pc = "GetNodeEndpointFromTalos"
    /\ threads \in [Callers -> [pc : {"call"}, nodeName : Names, k : {0},
                                ret : {""}]]
    /\ shared = [cache |-> NilCache, builds |-> 0, fatal |-> FALSE]
    /\ result = NewUpgradeResult
    /\ trace = <<>>
    /\ va = V100 /\ vb = V100 /\ vc = V100
    /\ out = <<>>
    /\ NoRun

\* what a step of a goroutine leaves alone
threadFrame ==
    <<entry, config, cluster, pc, resultArg, va, vb, vc, out, histVars, cmdVars,
      runVars, seqVars, cancelled, result, retErr, layer, groups, g, trace,
      inflight>>

\* "if nodeEndpointCache == nil"
CacheCheck(t) ==
    /\ threads[t].pc = "call"
    /\ ~shared.fatal
    /\ threads' = [threads EXCEPT ![t].pc = IF shared.cache.isNil
                                             THEN "buildNodeEndpointCache"
                                             ELSE "lookup"]
    /\ UNCHANGED <<shared, threadFrame>>

\* buildNodeEndpointCache up to "nodeEndpointCache = make(map[string]string)"
CacheMake(t) ==
    /\ threads[t].pc = "buildNodeEndpointCache"
    /\ ~shared.fatal
    /\ IF Len(TalosEndpoints) = 0
       THEN /\ threads' = [threads EXCEPT ![t].pc = "returned",
                                          ![t].ret = "failed to build node endpoint cache"]
            /\ UNCHANGED shared
       ELSE /\ shared' = [shared EXCEPT !.cache = [isNil |-> FALSE, map |-> <<>>],
                                        !.builds = @ + 1]
            /\ threads' = [threads EXCEPT ![t].pc = "getHostnameFromEndpoint",
                                          ![t].k = 1]
    /\ UNCHANGED threadFrame

\* one turn of the loop over the endpoints: the endpoint answers with its
\* hostname, which is cached, or fails and is skipped
CacheQuery(t) ==
    /\ threads[t].pc = "getHostnameFromEndpoint"
    /\ ~shared.fatal
    /\ LET endpoint == TalosEndpoints[threads[t].k]
       IN  \E ok \in BOOLEAN :
              shared' = IF ok
                        THEN [shared EXCEPT !.cache.map = Cached(@, endpoint, endpoint)]
                        ELSE shared
    /\ threads' = [threads EXCEPT ![t].k = @ + 1,
                                  ![t].pc = IF threads[t].k = Len(TalosEndpoints)
                                            THEN "built" ELSE @]
    /\ UNCHANGED threadFrame

\* "if len(nodeEndpointCache) == 0" at the end of the build
CacheBuilt(t) ==
    /\ threads[t].pc = "built"
    /\ ~shared.fatal
    /\ threads' = IF DOMAIN shared.cache.map = {}
                  THEN [threads EXCEPT ![t].pc = "returned",
                                       ![t].ret = "failed to build node endpoint cache"]
                  ELSE [threads EXCEPT ![t].pc = "lookup"]
    /\ UNCHANGED <<shared, threadFrame>>

\* "if endpoint, exists := nodeEndpointCache[nodeName]; exists"
CacheLookup(t) ==
    /\ threads[t].pc = "lookup"
    /\ ~shared.fatal
    /\ threads' = [threads EXCEPT
                      ![t].pc = "returned",
                      ![t].ret = IF threads[t].nodeName \in DOMAIN shared.cache.map
                                 THEN "endpoint" ELSE "no Talos endpoint found"]
    /\ UNCHANGED <<shared, threadFrame>>

\* the map is not safe for concurrent use: when a goroutine writes it while
\* another reads or writes it, the runtime may stop the program ("fatal
\* error: concurrent map read and map write")
CacheFatal ==
    /\ ~shared.fatal
    /\ \E t, u \in Callers :
          /\ t # u
          /\ threads[t].pc = "getHostnameFromEndpoint"
          /\ threads[u].pc \in {"getHostnameFromEndpoint", "built", "lookup"}
    /\ shared' = [shared EXCEPT !.fatal = TRUE]
    /\ UNCHANGED <<threads, threadFrame>>

GetNodeEndpointFromTalos(t) ==
    \/ CacheCheck(t)
    \/ CacheMake(t)
    \/ CacheQuery(t)
    \/ CacheBuilt(t)
    \/ CacheLookup(t)

CacheNext ==
    \/ \E t \in Callers : GetNodeEndpointFromTalos(t)
    \/ CacheFatal

CacheSpec == CacheInit /\ [][CacheNext]_vars

\* ==================================================== shared cluster client
\* GetSharedClientWithKubeconfig called by several goroutines, each of them
\* several times; InitializeClient is not called.  shared holds globalClient
\* and clientMutex (the goroutines holding its read lock, the one holding its
\* write lock), and as history how many constructions succeeded and failed.
\* "var globalClient *Client": nil
NilClient == <<>>

ClientInit ==
    /\ entry = "GetSharedClientWithKubeconfig"
    /\ pc = "GetSharedClientWithKubeconfig"
    /\ threads = [t \in Callers |-> [pc |-> "call", calls |-> 1, ret |-> NilClient,
                                     err |-> "nil"]]
    /\ shared = [globalClient |-> NilClient, readers |-> {}, writer |-> {},
                 made |-> 0, failed |-> 0]
    /\ result = NewUpgradeResult
    /\ trace = <<>>
    /\ va = V100 /\ vb = V100 /\ vc = V100
    /\ out = <<>>
    /\ NoRun

\* "clientMutex.RLock()": granted while no goroutine holds the write lock
ClientRLock(t) ==
    /\ threads[t].pc = "call"
    /\ shared.writer = {}
    /\ shared' = [shared EXCEPT !.readers = @ \cup {t}]
    /\ threads' = [threads EXCEPT ![t].pc = "check"]
    /\ UNCHANGED threadFrame

\* "if globalClient != nil { defer clientMutex.RUnlock(); return globalClient, nil }
\*  clientMutex.RUnlock()"
ClientCheck(t) ==
    /\ threads[t].pc = "check"
    /\ shared' = [shared EXCEPT !.readers = @ \ {t}]
    /\ threads' = IF shared.globalClient # NilClient
                  THEN [threads EXCEPT ![t].pc = "returned",
                                       ![t].ret = shared.globalClient,
                                       ![t].err = "nil"]
                  ELSE [threads EXCEPT ![t].pc = "Lock"]
    /\ UNCHANGED threadFrame

\* "clientMutex.Lock()": granted while no goroutine holds either lock
ClientLock(t) ==
    /\ threads[t].pc = "Lock"
    /\ shared.writer = {}
    /\ shared.readers = {}
    /\ shared' = [shared EXCEPT !.writer = {t}]
    /\ threads' = [threads EXCEPT ![t].pc = "doubleCheck"]
    /\ UNCHANGED threadFrame

\* variant: the client is constructed without looking at globalClient again
AfterDoubleCheck_Skipped(globalClient) == "NewClientWithKubeconfig"

\* "Double-check after acquiring write lock": what the holder does next
AfterDoubleCheck(globalClient) ==
    IF globalClient # NilClient THEN "return" ELSE "NewClientWithKubeconfig"

\* "if globalClient != nil { return globalClient, nil }" under the write lock
ClientDoubleCheck(t) ==
    /\ threads[t].pc = "doubleCheck"
    /\ IF AfterDoubleCheck(shared.globalClient) = "return"
       THEN /\ threads' = [threads EXCEPT ![t].pc = "returned",
                                          ![t].ret = shared.globalClient,
                                          ![t].err = "nil"]
            /\ shared' = [shared EXCEPT !.writer = {}]
       ELSE /\ threads' = [threads EXCEPT ![t].pc = "NewClientWithKubeconfig"]
            /\ UNCHANGED shared
    /\ UNCHANGED threadFrame

\* "globalClient, err = NewClientWithKubeconfig(kubeconfigPath)" and the
\* return that follows; a new client is a new instance, and a failed
\* construction assigns nil.  The deferred Unlock runs at the return.
ClientNew(t) ==
    /\ threads[t].pc = "NewClientWithKubeconfig"
    /\ \E ok \in BOOLEAN :
          IF ok
          THEN /\ shared' = [shared EXCEPT !.globalClient = <<shared.made + 1>>,
                                           !.made = @ + 1,
                                           !.writer = {}]
               /\ threads' = [threads EXCEPT ![t].pc = "returned",
                                             ![t].ret = <<shared.made + 1>>,
                                             ![t].err = "nil"]
          ELSE /\ shared' = [shared EXCEPT !.globalClient = NilClient,
                                           !.failed = @ + 1,
                                           !.writer = {}]
               /\ threads' = [threads EXCEPT ![t].pc = "returned",
                                             ![t].ret = NilClient,
                                             ![t].err = "failed to build kubeconfig"]
    /\ UNCHANGED threadFrame

\* the goroutine calls the function again
ClientCallAgain(t) ==
    /\ threads[t].pc = "returned"
    /\ threads[t].calls < MaxCallsPerCaller
    /\ threads' = [threads EXCEPT ![t].pc = "call", ![t].calls = @ + 1,
                                  ![t].ret = NilClient, ![t].err = "nil"]
    /\ UNCHANGED <<shared, threadFrame>>

GetSharedClientWithKubeconfig(t) ==
    \/ ClientRLock(t)
    \/ ClientCheck(t)
    \/ ClientLock(t)
    \/ ClientDoubleCheck(t)
    \/ ClientNew(t)

ClientNext ==
    \/ \E t \in Callers : GetSharedClientWithKubeconfig(t)
    \/ \E t \in Callers : ClientCallAgain(t)

ClientSpec == ClientInit /\ [][ClientNext]_vars

\* ================================================= retried cluster API call
\* retryKubernetesAPICall, called by goroutines that each have a context of
\* their own.  A goroutine's record holds its position, the loop variable
\* attempt, lastErr, whether its context is cancelled, what it returned, and
\* as history what every invocation of the operation returned and the delays
\* of the waits it began.
\* "const maxRetries = 3", "const baseDelay = 2 // seconds"
k8sMaxRetries == 3
baseDelay == 2

\* errors the operation can return
OperationErrors == {"failed to get Kubernetes client", "failed to get server version"}

RetryInit ==
    /\ entry = "retryKubernetesAPICall"
    /\ pc = "retryKubernetesAPICall"
    /\ threads = [t \in Callers |-> [pc |-> "operation", attempt |-> 1, lastErr |-> "nil",
                                     cancelled |-> FALSE, ret |-> <<"nil">>,
                                     outcomes |-> <<>>, delays |-> <<>>]]
    /\ shared = <<>>
    /\ result = NewUpgradeResult
    /\ trace = <<>>
    /\ va = V100 /\ vb = V100 /\ vc = V100
    /\ out = <<>>
    /\ NoRun

\* "delay := baseDelay * (1 << (attempt - 1))"
BackoffDelay(attempt) == baseDelay * 2 ^ (attempt - 1)

\* variant: a wait follows the last attempt too
AfterFailedAttempt_WaitAlways(attempt) ==
    IF attempt <= k8sMaxRetries THEN "wait" ELSE "next"

\* "if attempt < maxRetries": what follows a failed attempt
AfterFailedAttempt(attempt) ==
    IF attempt < k8sMaxRetries THEN "wait" ELSE "next"

\* the return after the loop
FailedAfterAttempts(lastErr) == <<"failed after attempts", k8sMaxRetries, lastErr>>

\* "attempt++; attempt <= maxRetries": the next turn of the loop, or the
\* return after it
NextAttempt(th) ==
    IF th.attempt + 1 <= k8sMaxRetries
    THEN [th EXCEPT !.attempt = @ + 1, !.pc = "operation"]
    ELSE [th EXCEPT !.attempt = @ + 1, !.pc = "returned",
                    !.ret = FailedAfterAttempts(th.lastErr)]

\* "result, err := operation()" and what follows it up to the select
RetryInvoke(t) ==
    /\ threads[t].pc = "operation"
    /\ \E err \in {"nil"} \cup OperationErrors :
          LET th == [threads[t] EXCEPT !.outcomes = Append(@, err)]
          IN  threads' =
                 [threads EXCEPT ![t] =
                     IF err = "nil"
                     THEN [th EXCEPT !.pc = "returned", !.ret = <<"nil">>]
                     ELSE IF AfterFailedAttempt(th.attempt) = "wait"
                     THEN [th EXCEPT !.lastErr = err, !.pc = "select",
                                     !.delays = Append(@, BackoffDelay(th.attempt))]
                     ELSE NextAttempt([th EXCEPT !.lastErr = err])]
    /\ UNCHANGED <<shared, threadFrame>>

\* "case <-time.After(...)": the delay has passed and the context is not
\* cancelled
RetryTimer(t) ==
    /\ threads[t].pc = "select"
    /\ ~threads[t].cancelled
    /\ threads' = [threads EXCEPT ![t] = NextAttempt(threads[t])]
    /\ UNCHANGED <<shared, threadFrame>>

\* "case <-ctx.Done(): return result, ctx.Err()"
RetryCtxDone(t) ==
    /\ threads[t].pc = "select"
    /\ threads[t].cancelled
    /\ threads' = [threads EXCEPT ![t].pc = "returned", ![t].ret = <<"context canceled">>]
    /\ UNCHANGED <<shared, threadFrame>>

\* the caller cancels the goroutine's context
CtxCancel(t) ==
    /\ threads[t].pc # "returned"
    /\ ~threads[t].cancelled
    /\ threads' = [threads EXCEPT ![t].cancelled = TRUE]
    /\ UNCHANGED <<shared, threadFrame>>

retryKubernetesAPICall(t) ==
    \/ RetryInvoke(t)
    \/ RetryTimer(t)
    \/ RetryCtxDone(t)

RetryNext ==
    \/ \E t \in Callers : retryKubernetesAPICall(t)
    \/ \E t \in Callers : CtxCancel(t)

RetrySpec == RetryInit /\ [][RetryNext]_vars

\* ================================================================ properties
InTrace(e) == \E k \in 1..Len(trace) : trace[k] = e

\* positions of the sequencers and their monitor
SeqPcs == {"loop", "UpgradeNode", "WaitForNodeReboot", "UpgradeKubernetesOnNode",
           "monitor", "batchReturn"}

\* positions of the batch whose name the lookup table lacks
Missing == {k \in 1..Len(nodeNames) : ~Exists(nodeMap, nodeNames[k])}

FirstMissing == CHOOSE m \in Missing : \A k \in Missing : m <= k

\* number of UpgradeNode invocations on a node so far
UpgradeNodeCalls(node) ==
    Cardinality({k \in 1..Len(trace) : trace[k] = Call("UpgradeNode", node)})

\* C1: host-layer failure isolation.  In a host-layer batch whose names all
\* resolve, no node is ever submitted to UpgradeNode twice, and once the loop
\* is over (the batch is in its monitor or has returned) every node of the
\* batch has been submitted exactly once, whatever failed before it.
C1_FailureIsolation ==
    (layer = "talos" /\ pc \in SeqPcs /\ Missing = {}) =>
        /\ \A k \in 1..Len(nodeNames) : UpgradeNodeCalls(nodeMap[nodeNames[k]]) <= 1
        /\ pc \in {"monitor", "batchReturn"} =>
              \A k \in 1..Len(nodeNames) : UpgradeNodeCalls(nodeMap[nodeNames[k]]) = 1

\* a batch whose first node failed its upgrade invocation and whose second
\* node was still submitted
C1_Witness ==
    /\ layer = "talos"
    /\ pc = "monitor"
    /\ Len(nodeNames) >= 2
    /\ Missing = {}
    /\ InTrace(Err("UpgradeNode", nodeMap[nodeNames[1]]))
    /\ InTrace(Call("UpgradeNode", nodeMap[nodeNames[2]]))

\* nodes whose host-layer upgrade invocation or health wait failed
HostFailed ==
    {n \in Names : InTrace(Err("UpgradeNode", n)) \/ InTrace(Err("WaitForNodeReboot", n))}

\* nodes whose host-layer upgrade invocation and health wait both succeeded
HostSucceeded == {n \in Names : InTrace(Ok("WaitForNodeReboot", n))}

\* C2: per-node outcomes reach the result.  When PerformUpgrade has returned,
\* every node whose host-layer upgrade or health wait failed is in
\* result.FailedNodes with RollbackRequired set, and every node whose upgrade
\* and health wait succeeded is in result.NodesUpgraded.
C2_OutcomesReachResult ==
    (entry = "PerformUpgrade" /\ pc = "returned") =>
        /\ \A n \in HostFailed : contains(result.FailedNodes, n) /\ result.RollbackRequired
        /\ \A n \in HostSucceeded : contains(result.NodesUpgraded, n)

\* C3: NodeNotFound aborts the batch.  When the batch holds a name the lookup
\* table lacks, the loop never gets past the first such position, no upgrader
\* is invoked for the node at that position or at any later one, the monitor
\* is not run, and a sequencer that returns from that position returns the
\* node-not-found error; the batch never returns success, and the host-layer
\* sequencer returns from no other position.
C3_NodeNotFoundAborts ==
    (pc \in SeqPcs /\ Missing # {}) =>
        /\ i <= FirstMissing
        /\ \A k \in FirstMissing..Len(nodeNames) :
              ~InTrace(Call(UpgraderOf(layer), nodeNames[k]))
        /\ pc # "monitor"
        /\ ~InTrace(Call(MonitorOf(layer), 0))
        /\ (pc = "batchReturn" /\ i = FirstMissing) =>
              batchErr = "node not found in cluster info"
        /\ pc = "batchReturn" => batchErr # "nil"
        /\ (pc = "batchReturn" /\ layer = "talos") => i = FirstMissing

\* a batch that returned node-not-found with a later, known node left untouched
C3_Witness ==
    /\ pc = "batchReturn"
    /\ batchErr = "node not found in cluster info"
    /\ i < Len(nodeNames)
    /\ Exists(nodeMap, nodeNames[i + 1])

UpgraderOps == {"UpgradeNode", "WaitForNodeReboot", "UpgradeKubernetesOnNode"}

AnyUpgraderCall ==
    \E k \in 1..Len(trace) : trace[k][1] = "call" /\ trace[k][2] \in UpgraderOps

\* the prerequisite snapshot shows a not-ready node or no control-plane node
PrerequisitesUnmet ==
    /\ prereq.ok
    /\ \/ \E j \in 1..Len(prereq.Nodes) : ~prereq.Nodes[j].Ready
       \/ ~\E j \in 1..Len(prereq.Nodes) : prereq.Nodes[j].IsControlPlane

\* C4: prerequisite gate.  If the prerequisite snapshot holds a not-ready node
\* or no control-plane node, the run returns the prerequisites error, no
\* upgrader is ever invoked and both layer flags stay false.
C4_PrerequisiteGate ==
    (entry = "PerformUpgrade" /\ PrerequisitesUnmet) =>
        /\ pc = "returned"
        /\ retErr = "upgrade prerequisites validation failed"
        /\ ~AnyUpgraderCall
        /\ ~result.TalosUpgraded
        /\ ~result.K8sUpgraded

\* a run refused on a cluster of worker nodes only
C4_Witness ==
    /\ entry = "PerformUpgrade"
    /\ pc = "returned"
    /\ PrerequisitesUnmet
    /\ Len(prereq.Nodes) >= 1

\* C5: the layers are release-gated independently.  Once the host-layer gate
\* has failed, no host-layer upgrader is invoked and TalosUpgraded stays
\* false; and if the orchestration-layer gate then passes and the cluster-wide
\* orchestration version is older than its target, upgradeKubernetes is run
\* (the run is inside it, or has returned with its outcome recorded).
C5_GatesIndependent ==
    (entry = "PerformUpgrade" /\ InTrace(Err(GateOf("talos"), 0))) =>
        /\ \A n \in Names : ~InTrace(Call("UpgradeNode", n))
                              /\ ~InTrace(Call("WaitForNodeReboot", n))
        /\ ~result.TalosUpgraded
        /\ (/\ InTrace(Ok(GateOf("kubernetes"), 0))
            /\ NeedsUpgrade(clusterInfo.K8sVersion, config.K8s.Version).needs) =>
              \/ layer = "kubernetes" /\ pc \in SeqPcs \cup {"upgradeKubernetes"}
              \/ /\ pc = "returned"
                 /\ \/ result.K8sUpgraded
                    \/ contains(result.Errors, "Kubernetes upgrade failed")

\* the host-layer gate failed and the Workload Upgrader was invoked
C5_Witness ==
    /\ entry = "PerformUpgrade"
    /\ InTrace(Err(GateOf("talos"), 0))
    /\ \E n \in Names : InTrace(Call("UpgradeKubernetesOnNode", n))

\* the upgrader operations of a layer
LayerOps(l) ==
    IF l = "talos" THEN {"UpgradeNode", "WaitForNodeReboot"}
    ELSE {"UpgradeKubernetesOnNode"}

\* trace positions of a layer's upgrader invocations
LayerCalls(l) ==
    {k \in 1..Len(trace) : trace[k][1] = "call" /\ trace[k][2] \in LayerOps(l)}

OrderOf(l) == IF l = "talos" THEN config.Talos.UpgradeOrder ELSE config.K8s.UpgradeOrder

\* the node of a trace event is in the role group the layer's order puts first
InFirstGroup(l, k) == cluster[trace[k][3]] = (OrderOf(l) = ControlPlaneFirst)

\* C6: role-group ordering.  Within each layer, no upgrader invocation on a
\* node of the second role group precedes one on a node of the first group
\* (control-plane nodes first under control-plane-first, workers first under
\* workers-first); while the first group's batch is running or in its monitor
\* no node of the second group has been touched; and between an invocation on
\* the first group and a later one on the second the first batch's monitor
\* has been started.
C6_RoleGroupOrdering ==
    entry = "PerformUpgrade" =>
        \A l \in {"talos", "kubernetes"} :
            /\ \A a \in LayerCalls(l), b \in LayerCalls(l) :
                  (a < b /\ InFirstGroup(l, b)) => InFirstGroup(l, a)
            /\ (layer = l /\ pc \in SeqPcs /\ g = 1) =>
                  \A a \in LayerCalls(l) : InFirstGroup(l, a)
            /\ \A a \in LayerCalls(l), b \in LayerCalls(l) :
                  (a < b /\ InFirstGroup(l, a) /\ ~InFirstGroup(l, b)) =>
                      \E c \in (a + 1)..(b - 1) : trace[c] = Call(MonitorOf(l), 0)

\* a workers-first host-layer run that reached a control-plane node after a
\* worker
C6_Witness ==
    /\ entry = "PerformUpgrade"
    /\ config.Talos.UpgradeOrder = WorkersFirst
    /\ \E a \in LayerCalls("talos"), b \in LayerCalls("talos") :
          /\ a < b
          /\ ~cluster[trace[a][3]]
          /\ cluster[trace[b][3]]

\* the operations of the host-layer phase: gate, upgrader, health wait, monitor
HostPhaseOps ==
    {GateOf("talos"), "UpgradeNode", "WaitForNodeReboot", MonitorOf("talos")}

\* C7: layer ordering.  In a run no event of the host-layer phase (its gate,
\* upgrader invocations, health waits, monitor) comes after a Workload
\* Upgrader invocation, no host-layer operation is in progress once one has
\* happened, and the run is then in or past the orchestration layer.
C7_LayerOrdering ==
    entry = "PerformUpgrade" =>
        /\ \A a \in LayerCalls("kubernetes"), b \in 1..Len(trace) :
              a < b => trace[b][2] \notin HostPhaseOps
        /\ LayerCalls("kubernetes") # {} =>
              /\ layer = "kubernetes"
              /\ pc \notin {"PerformUpgrade", "plan", "talosGate", "upgradeTalos",
                            "UpgradeNode", "WaitForNodeReboot"}
              /\ \A x \in inflight : x[1] = "UpgradeKubernetesOnNode"

\* a run that upgraded a node's host layer and then its orchestration layer
C7_Witness ==
    /\ entry = "PerformUpgrade"
    /\ \E a \in LayerCalls("talos"), b \in LayerCalls("kubernetes") : a < b

\* trace positions of upgrader invocations and health waits, both layers
UpgraderCalls == LayerCalls("talos") \cup LayerCalls("kubernetes")

\* the event at c is the return of the invocation at a
Returns(a, c) ==
    /\ trace[c][1] \in {"ok", "err"}
    /\ trace[c][2] = trace[a][2]
    /\ trace[c][3] = trace[a][3]

\* C8: one node at a time.  At most one upgrader invocation or health wait is
\* in progress; an invocation is started only after every earlier one has
\* returned; and the nodes of a batch are started in list order.
C8_OneAtATime ==
    /\ Cardinality(inflight) <= 1
    /\ \A a \in UpgraderCalls, b \in UpgraderCalls :
          a < b => \E c \in (a + 1)..(b - 1) : Returns(a, c)
    /\ pc \in SeqPcs =>
          \A k1 \in 1..Len(nodeNames), k2 \in 1..Len(nodeNames) :
             (k1 < k2 /\ Exists(nodeMap, nodeNames[k1]) /\ Exists(nodeMap, nodeNames[k2])) =>
                \A b \in 1..Len(trace) :
                   trace[b] = Call(UpgraderOf(layer), nodeMap[nodeNames[k2]]) =>
                      \E a \in 1..(b - 1) :
                         trace[a] = Call(UpgraderOf(layer), nodeMap[nodeNames[k1]])

\* the second node of a batch is in its health wait
C8_Witness ==
    /\ pc = "WaitForNodeReboot"
    /\ i = 2
    /\ inflight = {<<"WaitForNodeReboot", nodeMap[nodeNames[2]]>>}

\* C9: Progress Monitor timeout.  When the monitor returns at its deadline
\* with a batch node never observed converged, it returns a failure.
C9_MonitorTimeoutFails ==
    (/\ pc = "batchReturn"
     /\ monitorExit = "deadline"
     /\ \E k \in 1..Len(nodeNames) : nodeNames[k] \notin observed) =>
        batchErr # "nil"

\* C10: Progress Monitor convergence.  The monitor is never still polling
\* after a tick by which every batch node has been observed converged (it
\* returned at that tick), and when it returns from a tick, which is before
\* the deadline, it returns success and every batch node has been observed
\* ready and at the target version.
C10_MonitorConvergence ==
    /\ (pc = "monitor" /\ ticks >= 1) =>
          \E k \in 1..Len(nodeNames) : nodeNames[k] \notin observed
    /\ (pc = "batchReturn" /\ monitorExit = "tick") =>
          /\ batchErr = "nil"
          /\ \A k \in 1..Len(nodeNames) : nodeNames[k] \in observed

\* a batch of two nodes whose monitor returned success at its second tick
C10_Witness ==
    /\ pc = "batchReturn"
    /\ monitorExit = "tick"
    /\ ticks = 2
    /\ Len(nodeNames) >= 2

\* C11: nil error after prerequisites.  Once prerequisite validation and the
\* planning snapshot have succeeded, PerformUpgrade has no run-level error
\* while it runs and returns a nil error, whatever gates, layers, batches or
\* nodes failed; those failures are at most entries of result.Errors.
C11_NilErrorAfterPlanning ==
    (entry = "PerformUpgrade" /\ clusterInfo.ok) =>
        /\ retErr \in {"", "nil"}
        /\ pc = "returned" <=> retErr = "nil"

\* a run in which a gate failed, a node's upgrade failed and a layer failed,
\* returned with the layer's failure recorded
C11_Witness ==
    /\ entry = "PerformUpgrade"
    /\ clusterInfo.ok
    /\ pc = "returned"
    /\ retErr = "nil"
    /\ contains(result.Errors, "Kubernetes upgrade failed")
    /\ InTrace(Err(GateOf("talos"), 0))
    /\ \E n \in Names : InTrace(Err("UpgradeKubernetesOnNode", n))

\* C12: check-only mode never mutates the cluster.  In a check-only run no
\* Node Upgrader, health wait or Workload Upgrader invocation ever happens:
\* the run is either about to check or has returned, with nothing in
\* progress.
C12_CheckOnlyNeverUpgrades ==
    entry = "CheckOnly" =>
        /\ ~AnyUpgraderCall
        /\ inflight = {}
        /\ pc \in {"CheckOnly", "returned"}

\* a check-only run that returned having found both layers in need of an
\* available upgrade
C12_Witness ==
    /\ entry = "CheckOnly"
    /\ pc = "returned"
    /\ retErr = "nil"
    /\ checked.talosNeedsUpgrade
    /\ checked.k8sNeedsUpgrade

\* the (major, minor, patch) triple of a valid version
Triple(v) == parseVersion(TrimPrefix(v, "v")).parts

\* lexicographic order on triples
LexLess(s, t) ==
    \E k \in 1..3 : s[k] < t[k] /\ \A j \in 1..(k - 1) : s[j] = t[j]

\* C13: Compare is a total order on valid versions.  For strings a, b, c that
\* ValidateVersion accepts, Compare returns no error and one of Older, Equal,
\* Newer; Compare(a,b) is Newer iff Compare(b,a) is Older; it is Equal iff the
\* triples are equal; it is Older iff a's triple is lexicographically smaller;
\* and Older is transitive.
C13_CompareTotalOrder ==
    (pc = "Compare" /\ ValidateVersion(va) /\ ValidateVersion(vb) /\ ValidateVersion(vc)) =>
        /\ ~out.ab.err /\ ~out.ba.err
        /\ out.ab.res \in {Older, Equal, Newer}
        /\ out.ab.res = Newer <=> out.ba.res = Older
        /\ out.ab.res = Equal <=> Triple(va) = Triple(vb)
        /\ out.ab.res = Older <=> LexLess(Triple(va), Triple(vb))
        /\ (out.ab.res = Older /\ out.bc.res = Older) => out.ac.res = Older
        /\ (out.ab.res = Equal /\ out.bc.res = Equal) => out.ac.res = Equal

\* v1.9.9 older than v1.10.5 older than v2.0.0, compared
C13_Witness ==
    /\ pc = "Compare"
    /\ va = V199 /\ vb = V1105 /\ vc = V200
    /\ out.ab.res = Older /\ out.bc.res = Older /\ out.ac.res = Older
    /\ out.ba.res = Newer

\* the part of a version string before its suffix, without the 'v'
Core(v) == Split(TrimPrefix(v, "v"), "-")[1]

IsNumber(p) == p # <<>> /\ \A k \in 1..Len(p) : p[k] \in Digits

\* the string has the form [v]major.minor.patch[-suffix]
WellFormed(v) ==
    /\ Len(Split(Core(v), ".")) = 3
    /\ \A k \in 1..3 : IsNumber(Split(Core(v), ".")[k])

\* the (major, minor, patch) a well-formed string denotes
Denoted(v) == [k \in 1..3 |-> DecVal(Split(Core(v), ".")[k])]

\* C14: version parsing accepts every string of the form
\* [v]major.minor.patch[-suffix] and ignores the suffix: parsing succeeds and
\* yields the triple the string denotes, and two well-formed strings that
\* denote the same triple compare Equal.
C14_ParseIgnoresSuffix ==
    (pc = "parseVersion" /\ WellFormed(va)) =>
        /\ out.parsed.ok
        /\ out.parsed.parts = Denoted(va)
        /\ (WellFormed(vb) /\ Denoted(vb) = Denoted(va)) =>
              ~out.ab.err /\ out.ab.res = Equal

\* C15: NeedsUpgrade(current, target).  For strings ValidateVersion accepts it
\* returns no error and true iff Compare(current, target) is Older, which is
\* iff current's triple is lexicographically smaller: false for equal
\* versions and for downgrades.  When either string fails to parse it returns
\* an error and false.
C15_NeedsUpgrade ==
    pc = "NeedsUpgrade" =>
        IF ValidateVersion(va) /\ ValidateVersion(vb)
        THEN /\ ~out.needsUpgrade.err
             /\ out.needsUpgrade.needs <=> (~out.ab.err /\ out.ab.res = Older)
             /\ out.needsUpgrade.needs <=> LexLess(Triple(va), Triple(vb))
        ELSE /\ ~parseVersion(TrimPrefix(va, "v")).ok
                   \/ ~parseVersion(TrimPrefix(vb, "v")).ok
             /\ out.needsUpgrade.err
             /\ ~out.needsUpgrade.needs

\* a downgrade request, v2.0.0 to v1.9.9, answered with false
C15_Witness ==
    /\ pc = "NeedsUpgrade"
    /\ va = V200 /\ vb = V199
    /\ ~out.needsUpgrade.err
    /\ ~out.needsUpgrade.needs

\* C16: orchestration-layer failure isolation.  When an orchestration-layer
\* batch whose names all resolve returns, every node of the batch has been
\* submitted to the Workload Upgrader, whichever earlier nodes failed.
C16_K8sFailureIsolation ==
    (layer = "kubernetes" /\ pc = "batchReturn" /\ Missing = {}) =>
        \A k \in 1..Len(nodeNames) :
            InTrace(Call("UpgradeKubernetesOnNode", nodeMap[nodeNames[k]]))

\* the orchestration version of the planning snapshot is older than its target
K8sOlder ==
    LET c == Compare(clusterInfo.K8sVersion, config.K8s.Version)
    IN  ~c.err /\ c.res = Older

NodeUpgraderCalled ==
    \E n \in Names : InTrace(Call("UpgradeNode", n)) \/ InTrace(Call("WaitForNodeReboot", n))

WorkloadUpgraderCalled ==
    \E n \in Names : InTrace(Call("UpgradeKubernetesOnNode", n))

\* C17 as stated: no upgrade without need.  If no node of the planning
\* snapshot reports a host-layer version older than the host target, no Node
\* Upgrader invocation happens in the run; if the cluster-wide orchestration
\* version is not older than its target, no Workload Upgrader invocation
\* happens.
C17_NoUpgradeWithoutNeed ==
    (entry = "PerformUpgrade" /\ clusterInfo.ok) =>
        /\ ~planned.older => ~NodeUpgraderCalled
        /\ ~K8sOlder => ~WorkloadUpgraderCalled

\* C17 as amended: no upgrade without need.  If no node of the planning
\* snapshot reports a host-layer version that is older than the host target
\* or that fails to compare with it, no Node Upgrader invocation happens in
\* the run; if the cluster-wide orchestration version is not older than its
\* target, no Workload Upgrader invocation happens.
C17_NoUpgradeWithoutNeedAmended ==
    (entry = "PerformUpgrade" /\ clusterInfo.ok) =>
        /\ (~planned.older /\ ~planned.unparsed) => ~NodeUpgraderCalled
        /\ ~K8sOlder => ~WorkloadUpgraderCalled

\* a run whose gates both passed, on nodes none of which is older than or
\* incomparable with the host target and an orchestration version newer than
\* its target (a downgrade request), returned without any upgrader invocation
C17_Witness ==
    /\ entry = "PerformUpgrade"
    /\ pc = "returned"
    /\ clusterInfo.ok
    /\ Len(cluster) >= 2
    /\ ~planned.older /\ ~planned.unparsed
    /\ Compare(clusterInfo.K8sVersion, config.K8s.Version) = [err |-> FALSE, res |-> Newer]
    /\ InTrace(Ok(GateOf("talos"), 0))
    /\ InTrace(Ok(GateOf("kubernetes"), 0))
    /\ ~AnyUpgraderCall

\* C18: process exit code.  When run has returned after the manager call, its
\* exit code is 1 if the call returned an error or the result holds at least
\* one recorded error, and 0 otherwise (full success or nothing to do).
C18_ExitCode ==
    (entry \in CommandEntries /\ exitCode # NoExit) =>
        /\ pc = "returned"
        /\ exitCode \in {0, 1}
        /\ exitCode = 1 <=> (retErr # "nil" \/ HasErrors(result))

\* an upgrade run that returned a nil error with a layer failure recorded,
\* and exited with 1
C18_Witness ==
    /\ entry = "PerformUpgrade"
    /\ exitCode = 1
    /\ retErr = "nil"
    /\ contains(result.Errors, "Talos upgrade failed")

\* C19: release gate membership.  ValidateTargetVersion fails when the list
\* of available stable versions of the layer does not contain the target
\* string (no list counts as not containing it), succeeds when the target is
\* well-formed and the list contains it, and leaves the target as it was.
C19_ReleaseGateMembership ==
    pc = "ValidateTargetVersion" =>
        /\ ~contains(out.supported.versions, va) => ~out.ok
        /\ (WellFormed(va) /\ contains(out.supported.versions, va)) => out.ok
        /\ out.targetVersion = va

\* the gate opened for a target that is one of two listed versions
C19_Witness ==
    /\ pc = "ValidateTargetVersion"
    /\ out.ok
    /\ Len(out.supported.versions) = 2
    /\ out.supported.versions[2] = va

\* the errors with which the batches of a layer have returned so far
BatchErrorsOf(l) == {batches[k][2] : k \in {k \in 1..Len(batches) : batches[k][1] = l}}

\* the layer's sequencing is over: the run has moved past it
LayerOver(l) ==
    IF l = "talos" THEN layer = "kubernetes" \/ pc = "returned"
    ELSE pc = "returned"

\* C20: layer flags.  TalosUpgraded / K8sUpgraded is true in the result only
\* if no batch of that layer returned an error; and once the batches of a layer
\* have all returned without an error, its flag is true whatever happened to
\* the single nodes inside them.
C20_LayerFlags ==
    entry = "PerformUpgrade" =>
        /\ result.TalosUpgraded => BatchErrorsOf("talos") \subseteq {"nil"}
        /\ result.K8sUpgraded => BatchErrorsOf("kubernetes") \subseteq {"nil"}
        /\ (LayerOver("talos") /\ BatchErrorsOf("talos") = {"nil"})
              => result.TalosUpgraded
        /\ (LayerOver("kubernetes") /\ BatchErrorsOf("kubernetes") = {"nil"})
              => result.K8sUpgraded

\* the host layer is flagged as upgraded although the Node Upgrader failed on
\* a node of a batch that returned no error
C20_Witness ==
    /\ entry = "PerformUpgrade"
    /\ result.TalosUpgraded
    /\ BatchErrorsOf("talos") = {"nil"}
    /\ \E n \in Names : InTrace(Err("UpgradeNode", n))

\* C21: the monitor tolerates transient errors.  A node whose health check
\* returned an error at a tick is not marked failed, the tick with that error
\* does not end the monitor, the node is asked about again at the next tick,
\* and the monitor returns a failure only at the deadline.
C21_TransientErrorsTolerated ==
    /\ [](/\ \A n \in polled.erred \cup polled.erredBefore : ~contains(failedNodes, n)
          /\ monitorExit = "tick" => polled.erred = {}
          /\ (monitorExit # "" /\ batchErr # "nil") => monitorExit = "deadline")
    /\ [][(pc = "monitor" /\ ticks' = ticks + 1) => polled.erred \subseteq polled'.checked]_vars

\* a node whose check returned an error at an earlier tick was asked about
\* again and is among the successful nodes
C21_Witness ==
    /\ pc \in {"monitor", "batchReturn"}
    /\ \E n \in polled.erredBefore :
          /\ n \in polled.checked
          /\ contains(successfulNodes, n)

\* no element occurs twice in the list
NoDuplicates(slice) ==
    \A j, k \in 1..Len(slice) : slice[j] = slice[k] => j = k

\* C22: monitor convergence is monotonic.  Within one monitoring run the
\* list of successful nodes only grows (each tick keeps what it had and
\* appends), holds no node twice, and a node in it is not asked about again.
C22_ConvergenceMonotonic ==
    /\ [](NoDuplicates(successfulNodes))
    /\ [][(pc = "monitor" /\ ticks' = ticks + 1) =>
            /\ Len(successfulNodes') >= Len(successfulNodes)
            /\ SubSeq(successfulNodes', 1, Len(successfulNodes)) = successfulNodes
            /\ \A k \in 1..Len(successfulNodes) :
                  successfulNodes[k] \notin polled'.checked]_vars

\* a later tick of a run that already had a successful node asked about
\* another node and left the first one in place
C22_Witness ==
    /\ pc = "monitor"
    /\ ticks >= 2
    /\ Len(successfulNodes) = 1
    /\ polled.checked # {}
    /\ successfulNodes[1] \notin polled.checked

\* the upgrader of the running layer has returned for the batch node at k
Processed(k) ==
    /\ Exists(nodeMap, nodeNames[k])
    /\ \/ InTrace(Ok(UpgraderOf(layer), nodeMap[nodeNames[k]]))
       \/ InTrace(Err(UpgraderOf(layer), nodeMap[nodeNames[k]]))

MonitorCalls(l) ==
    Cardinality({k \in 1..Len(trace) : trace[k] = Call(MonitorOf(l), 0)})

\* C23: the monitor after the batch.  When a sequencer called on one batch has
\* returned and every node of the batch was processed, whatever the outcomes,
\* the monitor was run exactly once; a failure of the monitor is returned as
\* the batch's error; and no step of the monitor changes the per-node records
\* of the result.
C23_MonitorAfterBatch ==
    /\ []((entry \notin CommandEntries /\ pc = "returned") =>
            /\ (\A k \in 1..Len(nodeNames) : Processed(k)) => MonitorCalls(layer) = 1
            /\ (monitorExit # "" /\ batchErr # "nil") => retErr # "nil")
    /\ [][pc = "monitor" => result' = result]_vars

\* trace positions of the upgrader invocations of the running layer
BatchCalls ==
    {k \in 1..Len(trace) : trace[k][1] = "call" /\ trace[k][2] = UpgraderOf(layer)}

\* trace positions of the inter-node delays
NodeSleeps == {k \in 1..Len(trace) : trace[k] = Sleep("nodes", 30)}

\* C24: inter-node delay.  In a sequencer called on one batch whose names all
\* resolve, the inter-node delay lies between the upgrader invocations of
\* every two consecutive nodes, also when the earlier invocation failed, and
\* every delay is followed by the next node: none occurs after the last node.
C24_InterNodeDelay ==
    (entry \notin CommandEntries /\ Missing = {}) =>
        /\ \A a, b \in BatchCalls :
              a < b => \E c \in NodeSleeps : a < c /\ c < b
        /\ pc = "returned" =>
              \A c \in NodeSleeps : \E b \in BatchCalls : c < b

\* between the invocations at a and b of layer l lie the monitor of the
\* first group's batch and, after it, a stabilization delay of the given length
GroupsDelayed(l, a, b, seconds) ==
    \E m, c \in 1..Len(trace) :
        /\ a < m /\ m < c /\ c < b
        /\ trace[m] = Call(MonitorOf(l), 0)
        /\ trace[c] = Sleep("groups", seconds)

\* C25 as stated: in both layers a delay of 2 minutes lies between the first
\* group's batch and the first upgrader invocation of the second group.
C25_GroupStabilization ==
    entry = "PerformUpgrade" =>
        \A l \in {"talos", "kubernetes"} : \A a, b \in LayerCalls(l) :
            (a < b /\ InFirstGroup(l, a) /\ ~InFirstGroup(l, b)) =>
                GroupsDelayed(l, a, b, 120)

\* C25, amended: the delay has the length of the layer, 2 minutes for the host
\* layer and 1 minute for the orchestration layer.
C25_GroupStabilizationAmended ==
    entry = "PerformUpgrade" =>
        \A l \in {"talos", "kubernetes"} : \A a, b \in LayerCalls(l) :
            (a < b /\ InFirstGroup(l, a) /\ ~InFirstGroup(l, b)) =>
                GroupsDelayed(l, a, b, IF l = "talos" THEN 120 ELSE 60)

\* both role groups of the orchestration layer ran, one minute apart
C25_Witness ==
    /\ entry = "PerformUpgrade"
    /\ \E a, b \in LayerCalls("kubernetes") :
          /\ a < b /\ InFirstGroup("kubernetes", a) /\ ~InFirstGroup("kubernetes", b)
          /\ GroupsDelayed("kubernetes", a, b, 60)

\* C26: stabilization before the orchestration layer.  The run makes the
\* inter-layer pause exactly when the host layer was upgraded in it and it
\* found the orchestration layer to need upgrading (its gate passed and the
\* cluster-wide version is older than the target), and the pause precedes
\* every Workload Upgrader invocation.
C26_LayerStabilization ==
    entry = "PerformUpgrade" =>
        /\ InTrace(Sleep("layers", 120)) <=>
              /\ result.TalosUpgraded
              /\ InTrace(Ok(GateOf("kubernetes"), 0))
              /\ K8sOlder
        /\ \A b \in LayerCalls("kubernetes") :
              result.TalosUpgraded =>
                  \E c \in 1..Len(trace) : c < b /\ trace[c] = Sleep("layers", 120)

\* the host layer was upgraded and the Workload Upgrader runs after the pause
C26_Witness ==
    /\ entry = "PerformUpgrade"
    /\ result.TalosUpgraded
    /\ WorkloadUpgraderCalled
    /\ InTrace(Sleep("layers", 120))

\* C27: planning is fail-open.  A node for whose version the comparator
\* returns an error (its version or the target is malformed) is among the
\* nodes to upgrade, and the host layer is then reported as needing upgrade.
C27_PlanningFailOpen ==
    pc = "checkTalosUpgradeNeeded" =>
        /\ Compare(va, vc).err => contains(out.nodesToUpgrade, 1)
        /\ Compare(vb, vc).err => contains(out.nodesToUpgrade, 2)
        /\ (Compare(va, vc).err \/ Compare(vb, vc).err) => out.needsUpgrade

\* the second node's version is malformed, the first node is at the target:
\* only the second is to be upgraded
C27_Witness ==
    /\ pc = "checkTalosUpgradeNeeded"
    /\ va = V110 /\ vb = Unknown /\ vc = V110
    /\ out.nodesToUpgrade = <<2>>
    /\ out.needsUpgrade

\* the release gate of layer l has failed in this run
GateFailed(l) == InTrace(Err(GateOf(l), 0))

\* C28: a release-gate failure is not an error of the run.  The step in which
\* a gate fails leaves the result as it was; the layer whose gate failed is
\* skipped (no upgrader invocation, flag false, no error of that layer in the
\* result); and a run in which both gates failed returns a nil error and a
\* result with no errors and both flags false.
C28_GateFailureSkipsLayer ==
    /\ [](entry = "PerformUpgrade" =>
            /\ GateFailed("talos") =>
                  /\ LayerCalls("talos") = {}
                  /\ ~result.TalosUpgraded
                  /\ ~contains(result.Errors, "Talos upgrade failed")
            /\ GateFailed("kubernetes") =>
                  /\ LayerCalls("kubernetes") = {}
                  /\ ~result.K8sUpgraded
                  /\ ~contains(result.Errors, "Kubernetes upgrade failed")
                  /\ ~contains(result.Errors, "failed to check Kubernetes version")
            /\ (GateFailed("talos") /\ GateFailed("kubernetes")) =>
                  /\ pc = "returned" /\ retErr = "nil"
                  /\ result.Errors = <<>>
                  /\ ~result.TalosUpgraded /\ ~result.K8sUpgraded)
    /\ [][\A l \in {"talos", "kubernetes"} :
            (~GateFailed(l) /\ trace' = Append(trace, Err(GateOf(l), 0)))
                => result' = result]_vars

\* a run both of whose gates failed has returned
C28_Witness ==
    /\ entry = "PerformUpgrade"
    /\ pc = "returned"
    /\ GateFailed("talos") /\ GateFailed("kubernetes")
    /\ result = NewUpgradeResult

\* the fetch returned an error or no stable version
FetchFailed(fetched) == ~fetched.ok \/ fetched.versions = <<>>

\* C29: release index lookup retry.  The lookup makes at most 3 attempts with
\* the same delay between consecutive attempts and none after the last; it
\* returns the list of the first attempt that yields a non-empty one, having
\* made no attempt after it; an empty list is retried like an error; and it
\* returns an error, never an empty list, exactly when all 3 attempts fail or
\* yield nothing.
C29_LookupRetry ==
    pc = "GetSupportedVersions" =>
        LET made == out.supported.attempts
        IN  /\ made \in 1..3
            /\ Len(out.supported.sleeps) = made - 1
            /\ \A k \in 1..Len(out.supported.sleeps) : out.supported.sleeps[k] = 2
            /\ \A k \in 1..(made - 1) : FetchFailed(out.fetches[k])
            /\ out.supported.ok =>
                  /\ ~FetchFailed(out.fetches[made])
                  /\ out.supported.versions = out.fetches[made].versions
                  /\ out.supported.versions # <<>>
            /\ ~out.supported.ok <=> \A k \in 1..3 : FetchFailed(out.fetches[k])
            /\ ~out.supported.ok => made = 3

\* the first attempt failed, the second returned nothing, the third returned
\* a list
C29_Witness ==
    /\ pc = "GetSupportedVersions"
    /\ ~out.fetches[1].ok
    /\ out.fetches[2].ok /\ out.fetches[2].versions = <<>>
    /\ out.supported.ok
    /\ out.supported.attempts = 3
    /\ out.supported.sleeps = <<2, 2>>

\* the tags of the feed's releases that are neither draft nor prerelease and
\* are well-formed versions with the 'v'
StableTags(releases) ==
    {releases[k].TagName : k \in
        {k \in 1..Len(releases) :
            /\ ~releases[k].Prerelease /\ ~releases[k].Draft
            /\ HasPrefix(releases[k].TagName, "v")
            /\ WellFormed(releases[k].TagName)}}

\* C30: the available-versions list.  The list computed from a feed holds no
\* version twice, only tags of releases that are neither draft nor prerelease
\* and are well-formed with the 'v', each entry newer by Compare than the one
\* after it, at most 5 entries, and no stable tag left out is newer than one
\* that is in.
C30_AvailableVersionsList ==
    pc = "fetchVersionsFromGitHub" =>
        LET versions == out.fetched.versions
            listed == {versions[k] : k \in 1..Len(versions)}
        IN  /\ NoDuplicates(versions)
            /\ listed \subseteq StableTags(out.releases)
            /\ \A k \in 1..(Len(versions) - 1) :
                  LET c == Compare(versions[k], versions[k + 1])
                  IN  ~c.err /\ c.res = Newer
            /\ Len(versions) <= 5
            /\ \A v \in StableTags(out.releases) \ listed : \A w \in listed :
                  Compare(v, w).res # Newer

\* the names of a slice
Elems(slice) == {slice[k] : k \in 1..Len(slice)}

\* C31: UpgradeResult invariants.  After any sequence of AddUpgradedNode and
\* AddFailedNode calls on a fresh result, NodesUpgraded and FailedNodes each
\* hold no name twice, no name is in both, and RollbackRequired is true
\* exactly when FailedNodes is not empty.
C31_ResultInvariants ==
    pc = "UpgradeResult" =>
        /\ NoDuplicates(result.NodesUpgraded)
        /\ NoDuplicates(result.FailedNodes)
        /\ Elems(result.NodesUpgraded) \cap Elems(result.FailedNodes) = {}
        /\ result.RollbackRequired <=> (result.FailedNodes # <<>>)

\* a step that starts an upgrader invocation
StartsUpgrader ==
    \E k \in (Len(trace) + 1)..Len(trace') :
        /\ trace'[k][1] = "call"
        /\ trace'[k][2] \in {UpgraderOf("talos"), UpgraderOf("kubernetes")}

\* C32: cancellable sleeps.  Once the caller has cancelled the run during an
\* inter-node delay or a stabilization delay, no step starts an upgrader
\* invocation.
C32_CancellableSleeps == [][cancelled => ~StartsUpgrader]_vars

\* a goroutine is inside buildNodeEndpointCache, the cache made but not yet
\* complete
Building(t) == threads[t].pc \in {"getHostnameFromEndpoint", "built"}

\* C33: endpoint cache under concurrency.  With concurrent first callers of
\* GetNodeEndpointFromTalos the cache is built at most once, and no caller is
\* at its lookup in the cache while another caller is building it.
C33_CacheBuiltOnce ==
    pc = "GetNodeEndpointFromTalos" =>
        /\ shared.builds <= 1
        /\ \A t, u \in Callers :
              ~(t # u /\ Building(t) /\ threads[u].pc = "lookup")

\* C34: fresh snapshot per phase.  When the orchestration layer's gate has
\* passed and its needs-upgrade decision is taken, no host-layer upgrade has
\* been invoked since the snapshot the decision reads was fetched.
C34_FreshSnapshot ==
    \A b \in 1..Len(trace) :
        trace[b] = Ok(GateOf("kubernetes"), 0) =>
            ~\E k \in (snapshotAt + 1)..(b - 1) :
                trace[k][1] = "call" /\ trace[k][2] = UpgraderOf("talos")

\* C35: check-only agrees with a real run.  On the same snapshot (all nodes
\* ready, a control plane present), configuration and release index, CheckOnly
\* reports needs-upgrade for a layer exactly when PerformUpgrade starts that
\* layer's upgrade.
C35_CheckOnlyAgrees ==
    (entry = "version" /\ pc = "CheckOnly") =>
        /\ out.checkOnly.checked.talosNeedsUpgrade <=> out.performUpgrade.talos
        /\ out.checkOnly.checked.k8sNeedsUpgrade <=> out.performUpgrade.kubernetes

\* the host layer obtained its fresh snapshot: a batch of it has returned, or
\* the layer ended with its flag set
HostLayerRan ==
    LayerOver("talos") /\ (BatchErrorsOf("talos") # {} \/ result.TalosUpgraded)

\* C36: host-layer scope.  Once the host-layer gate has passed with at least
\* one node to upgrade, the sequencer submits every node of the fresh snapshot
\* to the Node Upgrader exactly once: no node is submitted twice, and when the
\* layer is over every node has been submitted, whether or not the planning
\* step listed it as needing the upgrade.
C36_HostLayerScope ==
    entry = "PerformUpgrade" =>
        /\ \A n \in 1..Len(cluster) : UpgradeNodeCalls(n) <= 1
        /\ HostLayerRan => \A n \in 1..Len(cluster) : UpgradeNodeCalls(n) = 1

\* the planning step listed one node of two, and both were submitted
C36_Witness ==
    /\ entry = "PerformUpgrade"
    /\ HostLayerRan
    /\ planned.listed = 1
    /\ Len(cluster) = 2
    /\ \A n \in 1..Len(cluster) : UpgradeNodeCalls(n) = 1

\* the errors of the layer's batches that have returned, in the order they ran
BatchErrorSeq(l) == SelectSeq(batches, LAMBDA b : b[1] = l)

\* the error PerformUpgrade records for a failed layer
LayerError(l) == IF l = "talos" THEN "Talos upgrade failed" ELSE "Kubernetes upgrade failed"

\* the first role group of the layer has a node: the first batch is its batch
FirstGroupHasNode(l) ==
    \E n \in 1..Len(cluster) : cluster[n] = (OrderOf(l) = ControlPlaneFirst)

\* the first role group's batch of the layer returned an error
FirstBatchFailed(l) ==
    /\ FirstGroupHasNode(l)
    /\ BatchErrorSeq(l) # <<>>
    /\ BatchErrorSeq(l)[1][2] # "nil"

\* C37: a batch-level error ends the layer.  When the batch of a layer's first
\* role group returns an error, no node of the second group is ever submitted
\* and no second batch runs, the layer's upgraded flag stays false, and
\* exactly one error for that layer is in result.Errors.
C37_BatchErrorEndsLayer ==
    entry = "PerformUpgrade" =>
        \A l \in {"talos", "kubernetes"} :
            FirstBatchFailed(l) =>
                /\ Len(BatchErrorSeq(l)) = 1
                /\ \A k \in LayerCalls(l) : InFirstGroup(l, k)
                /\ ~(IF l = "talos" THEN result.TalosUpgraded ELSE result.K8sUpgraded)
                /\ Len(SelectSeq(result.Errors, LAMBDA e : e = LayerError(l))) = 1

\* the first group's batch of the orchestration layer failed in a cluster
\* that has a node in the second group, and the run has returned
C37_Witness ==
    /\ entry = "PerformUpgrade"
    /\ pc = "returned"
    /\ FirstBatchFailed("kubernetes")
    /\ \E n \in 1..Len(cluster) : cluster[n] # (OrderOf("kubernetes") = ControlPlaneFirst)
    /\ ~result.K8sUpgraded
    /\ result.Errors # <<>>

\* C38: shared cluster client.  With concurrent callers of
\* GetSharedClientWithKubeconfig and no InitializeClient, at most one client is
\* ever constructed successfully and every caller that returned without an
\* error holds that one instance; while no construction has succeeded the
\* shared client is unset, and a caller whose construction failed got the
\* error and no client.
C38_SharedClientOnce ==
    entry = "GetSharedClientWithKubeconfig" =>
        /\ shared.made <= 1
        /\ shared.made = 0 => shared.globalClient = NilClient
        /\ \A t \in Callers :
              threads[t].pc = "returned" =>
                 IF threads[t].err = "nil"
                 THEN threads[t].ret # NilClient /\ threads[t].ret = shared.globalClient
                 ELSE threads[t].ret = NilClient

\* a construction failed, a later call constructed the client, and two
\* callers have returned with it
C38_Witness ==
    /\ entry = "GetSharedClientWithKubeconfig"
    /\ shared.failed > 0
    /\ shared.made = 1
    /\ \E t, u \in Callers :
          /\ t # u
          /\ threads[t].pc = "returned" /\ threads[t].err = "nil"
          /\ threads[u].pc = "returned" /\ threads[u].err = "nil"
          /\ threads[t].ret = threads[u].ret

\* s is an initial part of q
IsPrefix(s, q) == Len(s) <= Len(q) /\ \A k \in 1..Len(s) : s[k] = q[k]

C40_ComparatorsAgree ==
    (entry = "version" /\ pc = "CompareVersions") =>
        /\ (~out.Compare.err /\ ~out.CompareVersions.err)
              => out.Compare.res = out.CompareVersions.res
        /\ (~out.NeedsUpgrade.err /\ ~out.IsVersionUpgradeNeeded.err)
              => out.NeedsUpgrade.needs = out.IsVersionUpgradeNeeded.needs
        /\ out.accepted.version = out.accepted.k8s

====
